---- MODULE Spec2Model ----
(***************************************************************************)
(* Model of the metrics collector of kuzco-monitor (package api):          *)
(* the rolling window (HourlyStatsManager), the alert latches              *)
(* (AlertStateManager, checkAlerts), the snapshot builder                  *)
(* (collectMinuteMetrics) and the scheduler loop (CollectMetrics), with    *)
(* the consumer goroutine of main() that publishes the latest snapshot.    *)
(*                                                                         *)
(* Time is counted in whole minutes (Minute is the unit).  float64 values  *)
(* that the code only adds and compares are small naturals; a float64      *)
(* quotient is kept as the pair numerator/denominator.                     *)
(***************************************************************************)
EXTENDS Integers, Sequences, FiniteSets, TLC

VARIABLES
    now,            \* wall clock, time.Now(), in minutes
    cfg,            \* arguments of CollectMetrics: vastaiToken, includeVastaiCost, alertConfig
    pc,             \* position of the CollectMetrics goroutine
    minuteTickerC,  \* minuteTicker.C: number of buffered firings (capacity 1)
    dailyTimerC,    \* dailyTimer.C: number of buffered firings (capacity 1)
    dailyDue,       \* time at which dailyTimer fires next
    alertState,     \* globalAlertState.state
    stats,          \* GlobalHourlyStats.stats
    pending,        \* the value the collector is about to send on a channel
    minuteChan,     \* minuteChan (capacity 1)
    dailyChan,      \* dailyChan (capacity 1)
    currentMetrics, \* currentMetrics of main.go, Nil before the first snapshot
    inflight,       \* number of collectMinuteMetrics calls in progress
    hourly,         \* result of the GetStats call just made, Nil otherwise
    lastTick,       \* history: what the tick just finished did, Nil otherwise
    lastKind,       \* history: per latch, the kind of the last delivered notification
    disagreeSince,  \* history: first tick of the current unbroken run of disagreeing counts
    dropped,        \* history: the position of the loop when the firing just made was dropped
    ticks,          \* history: number of minute ticks started
    call,           \* the function call just made with its arguments and result, Nil otherwise
    stop,           \* the stop channel handed to CollectMetrics: "open" or "closed"
    proc,           \* the process: "running" until main returns, then "exited"
    held,           \* the three mutexes and globalMetricsLock: the task holding each, or "free"
    at,             \* the position of each task that takes the locks step by step
    heap,           \* the MinuteMetrics values stored behind a pointer, by address
    view,           \* what a reader of currentMetrics got: the pointer and the fields read
    mon,            \* the instance monitor's cycle: the list it got, its index, what it did
    writer,         \* per account, the UpdateStats call its collector is making
    monitors,       \* startInstanceMonitoring of one account and the loops it started
    latching,       \* per account, its tick between getState and setState; who raised the latch
    session         \* the one api.Client of main: its token, the logins made, the requests sent

vars == <<now, cfg, pc, minuteTickerC, dailyTimerC, dailyDue, alertState, stats,
          pending, minuteChan, dailyChan, currentMetrics, inflight, hourly, lastTick,
          lastKind, disagreeSince, dropped, ticks, call, stop, proc, held, at, heap, view,
          mon, writer, monitors, latching, session>>

\* the state outside the collector, its channels and the shared metrics
\* the state of the tasks added beside the four below
moreVars == <<monitors, latching, session>>
taskVars == <<held, at, heap, view, mon, writer, moreVars>>
envVars == <<stop, proc, taskVars>>

-----------------------------------------------------------------------------
(* Bounds of the model                                                     *)

\* last minute of the clock in Spec and SpecSched
MaxTime == 6
\* most minute ticks a run starts
MaxTicks == 3
\* last minute of the clock in SpecStats
MaxStatsTime == 130
\* longest window SpecStats builds
MaxWindowLen == 3

-----------------------------------------------------------------------------
(* Program constants                                                       *)

\* time.Minute, the unit of the clock
Minute == 1
\* the window of UpdateStats: now.Add(-60 * time.Minute)
WindowMinutes == 60
\* the grace period of checkInstanceCount: 5*time.Minute
GraceMinutes == 5
\* capacity of minuteChan and dailyChan, and of a timer channel
ChanCap == 1

\* a nil pointer, an empty channel, "no value": the empty sequence;
\* a value v behind a pointer or in a channel of capacity 1: <<v>>
Nil == <<>>
Some(v) == <<v>>
Val(p) == p[1]

\* metricsLock of main.go, the mutex of HourlyStatsManager, the mutex of
\* AlertStateManager and globalMetricsLock of the API server
Locks == {"metricsLock", "mutex", "mu", "globalMetricsLock"}
\* the goroutines that take them: CollectMetrics, the consumer of the channels, a
\* reporter or command handler, the instance monitor
Tasks == {"collector", "consumer", "reporter", "monitor"}
\* a reader that holds no pointer and has read nothing
NoView == [p |-> 0, was |-> Nil, General |-> Nil, User |-> Nil]
\* a monitor cycle that has not fetched its instances: the list, the index of the
\* instance in hand, the fleet count read by the pre-check and by the last re-check,
\* and per kind of outcome the instances (by index) that met it in this cycle; the
\* instances whose scan reported a sustained timeout, the reboots issued and the
\* notifications handed to the sink, in order
NoCycle == [instances |-> <<>>, i |-> 0, pre |-> Nil, re |-> Nil,
            requested |-> {}, failed |-> {}, rebooted |-> {}, skipped |-> {},
            timedOut |-> {}, reboots |-> <<>>, alerts |-> <<>>]
\* most accounts of config.json
MaxAccounts == 2
\* the accounts main starts a collector for
Accounts == {<<"first", "second", "third">>[i] : i \in 1..MaxAccounts}
\* a collector that is not inside UpdateStats
NoUpdate == [pos |-> "idle", metrics |-> Nil, called |-> 0, now |-> 0]
\* startInstanceMonitoring before its first statement: its position, the time its
\* ticker fires next, the firings buffered in ticker.C, and the goroutines that
\* StartContinuousMonitoring has started
NoMonitoring == [pos |-> "start", due |-> 0, tickerC |-> 0, loops |-> <<>>]
\* no account is between the getState and the setState of a tick, and no tick has
\* raised the version latch
NoLatching == [tick |-> [a \in Accounts |-> [pos |-> "idle", mm |-> Nil, read |-> Nil]],
               raised |-> ""]
\* api.NewClient() before the loop over the accounts: the client's token, the
\* index of the account main is at, per account the token its login issued ("" for
\* none), and the requests the collectors sent, each with the token it carried
NoSession == [token |-> "", next |-> 1, issued |-> [a \in Accounts |-> ""],
              requests |-> <<>>]
\* the result of a fetch: an error, or a value
Err == [ok |-> FALSE]
Ok(v) == [ok |-> TRUE, val |-> v]
\* the zero time.Time (IsZero)
ZeroTime == -1

-----------------------------------------------------------------------------
(* float64 quotients                                                       *)

\* float64(a) / float64(b)
Quot(a, b) == [num |-> a, den |-> b]
\* the zero value of a float64 field
ZeroFloat == [num |-> 0, den |-> 1]
\* q = n as numbers
QuotIs(q, n) == q.den # 0 /\ q.num = n * q.den

-----------------------------------------------------------------------------
(* Rolling window: HourlyStatsManager                                      *)

NotBefore(a, b) == a >= b
\* time.Time.After
After(a, b) == a > b

\* MinuteStats built by UpdateStats from a MinuteMetrics
NewStat(metrics, t) ==
    [RPM            |-> metrics.General.RPM,
     TotalInstances |-> metrics.General.TotalInstances,
     GeneralGen     |-> metrics.General.GenerationLastHour,
     UserGen        |-> metrics.User.GenerationLastHour,
     Timestamp      |-> t]

\* UpdateStats: drop what is not after the cutoff, then append the new sample
UpdateStats(m, metrics, t) ==
    LET cutoff     == t - WindowMinutes * Minute
        validStats == SelectSeq(m, LAMBDA stat : After(stat.Timestamp, cutoff))
    IN  Append(validStats, NewStat(metrics, t))

ZeroAgg == [Min |-> 0, Max |-> 0, Avg |-> ZeroFloat, Current |-> 0, Count |-> 0, Sum |-> 0]

RECURSIVE StatLoopNoSeed(_, _, _)
StatLoopNoSeed(vals, i, r) ==
    IF i > Len(vals) THEN r
    ELSE LET v == vals[i]
         IN  StatLoopNoSeed(vals, i + 1,
                 [r EXCEPT !.Min = IF v < r.Min THEN v ELSE r.Min,
                           !.Max = IF v > r.Max THEN v ELSE r.Max,
                           !.Current = v, !.Sum = r.Sum + v, !.Count = r.Count + 1])
\* one pass of a "for i, stat := range m.stats" loop of GetStats over one field
RECURSIVE StatLoop(_, _, _)
StatLoop(vals, i, r) ==
    IF i > Len(vals) THEN r
    ELSE LET v  == vals[i]
             r1 == IF i = 1
                   THEN [r EXCEPT !.Min = v, !.Max = v]
                   ELSE [r EXCEPT !.Min = IF v < r.Min THEN v ELSE r.Min,
                                  !.Max = IF v > r.Max THEN v ELSE r.Max]
         IN  StatLoop(vals, i + 1,
                      [r1 EXCEPT !.Current = v, !.Sum = r.Sum + v, !.Count = r.Count + 1])

\* the loop followed by "if Count > 0 { Avg = float64(Sum) / float64(Count) }"
FieldStats(vals) ==
    LET r == StatLoop(vals, 1, ZeroAgg)
    IN  IF r.Count > 0 THEN [r EXCEPT !.Avg = Quot(r.Sum, r.Count)] ELSE r

RECURSIVE SumField(_, _)
SumField(vals, i) == IF i > Len(vals) THEN 0 ELSE vals[i] + SumField(vals, i + 1)

RatioUnguarded(user, general) == Quot(user * 100, general)
\* "if General > 0 { Ratio = float64(User) / float64(General) * 100 }"
Ratio(user, general) == IF general > 0 THEN Quot(user * 100, general) ELSE ZeroFloat

Column(m, f) == [i \in 1..Len(m) |-> m[i][f]]

\* GetStats at time t
GetStats(m, t) ==
    IF Len(m) = 0
    THEN [RPM |-> ZeroAgg, TotalInstances |-> ZeroAgg,
          GenerationLastHour |-> [General |-> 0, User |-> 0, Ratio |-> ZeroFloat],
          StartTime |-> t, EndTime |-> t]
    ELSE LET general == SumField(Column(m, "GeneralGen"), 1)
             user    == SumField(Column(m, "UserGen"), 1)
         IN  [RPM |-> FieldStats(Column(m, "RPM")),
              TotalInstances |-> FieldStats(Column(m, "TotalInstances")),
              GenerationLastHour |->
                  [General |-> general, User |-> user, Ratio |-> Ratio(user, general)],
              StartTime |-> m[1].Timestamp,
              EndTime |-> m[Len(m)].Timestamp]

-----------------------------------------------------------------------------
(* Primary provider: KuzcoClient.GetAllMetrics                             *)

RECURSIVE SumOver(_, _, _)
SumOver(ws, f, i) == IF i > Len(ws) THEN 0 ELSE ws[i][f] + SumOver(ws, f, i + 1)

\* resp is Err when any of the fetches of GetAllMetrics fails ("return nil, err"),
\* and otherwise what the fetches returned; the totals are computed from the workers
GetAllMetrics(resp) ==
    IF ~resp.ok THEN Err
    ELSE Ok([General |-> [RunningInstanceCount |-> resp.val.RunningInstanceCount,
                          RPM                  |-> resp.val.RPM,
                          GenerationsHistory   |-> resp.val.GeneralGenerationsHistory],
             User    |-> [GenerationsHistory |-> resp.val.UserGenerationsHistory,
                          Workers            |-> resp.val.Workers,
                          TotalInstances     |-> SumOver(resp.val.Workers, "InstanceCount", 1),
                          TotalDailyCost     |-> SumOver(resp.val.Workers, "DailyCost", 1)]])

-----------------------------------------------------------------------------
(* Snapshot builder: the first part of collectMinuteMetrics                *)

\* "if len(history) > 0 { x = history[0].Value }"
FirstValue(history) == IF Len(history) > 0 THEN history[1] ELSE 0

InstanceFieldsKeepFlag(c, actual, instances) ==
    IF c.vastaiToken # ""
    THEN IF ~instances.ok
         THEN [TotalInstances |-> actual, InstancesMismatch |-> TRUE]
         ELSE [TotalInstances |-> instances.val, InstancesMismatch |-> instances.val # actual]
    ELSE [TotalInstances |-> actual, InstancesMismatch |-> FALSE]
InstanceFieldsFlagFirst(c, actual, instances) ==
    IF c.vastaiToken # ""
    THEN IF ~instances.ok
         THEN [TotalInstances |-> actual, InstancesMismatch |-> FALSE]
         ELSE [TotalInstances |-> instances.val, InstancesMismatch |-> 0 # actual]
    ELSE [TotalInstances |-> actual, InstancesMismatch |-> FALSE]
\* mm.User.TotalInstances and mm.User.InstancesMismatch
InstanceFields(c, actual, instances) ==
    IF c.vastaiToken # ""
    THEN IF ~instances.ok
         THEN [TotalInstances |-> actual, InstancesMismatch |-> FALSE]
         ELSE [TotalInstances |-> instances.val, InstancesMismatch |-> instances.val # actual]
    ELSE [TotalInstances |-> actual, InstancesMismatch |-> FALSE]

\* mm.User.VastaiCredit
CreditField(c, credit) ==
    IF c.vastaiToken # "" /\ c.includeVastaiCost /\ credit.ok
    THEN Some([Credit |-> credit.val]) ELSE Nil

\* mm.User.VastaiDailyCost
VastaiCostField(c, cost) ==
    IF c.vastaiToken # "" /\ c.includeVastaiCost /\ cost.ok THEN cost.val ELSE 0

\* a total that falls back to the GPU-price estimate when the provider gave no cost
TotalCostFieldFallback(c, kuzco, vastai) ==
    IF c.vastaiToken # "" /\ c.includeVastaiCost /\ vastai # 0 THEN vastai ELSE kuzco

\* mm.User.TotalDailyCost
TotalCostField(c, kuzco, vastai) ==
    IF c.vastaiToken # "" /\ c.includeVastaiCost THEN vastai ELSE kuzco

\* the MinuteMetrics of a tick before the alert checks; as is getState()
BuildMinuteMetrics(metrics, in, c, as, t) ==
    LET actual == metrics.User.TotalInstances
        inst   == InstanceFields(c, actual, in.instances)
        kuzco  == metrics.User.TotalDailyCost
        vastai == VastaiCostField(c, in.cost)
    IN  [General |-> [TotalInstances     |-> metrics.General.RunningInstanceCount,
                      RPM                |-> metrics.General.RPM,
                      GenerationLastHour |-> FirstValue(metrics.General.GenerationsHistory)],
         User    |-> [ActualTotalInstances |-> actual,
                      TotalInstances       |-> inst.TotalInstances,
                      InstancesMismatch    |-> inst.InstancesMismatch,
                      VastaiCredit         |-> CreditField(c, in.credit),
                      KuzcoDailyCost       |-> kuzco,
                      VastaiDailyCost      |-> vastai,
                      TotalDailyCost       |-> TotalCostField(c, kuzco, vastai),
                      GenerationLastHour   |-> FirstValue(metrics.User.GenerationsHistory),
                      Workers              |-> metrics.User.Workers],
         Timestamp  |-> t,
         AlertState |-> as]

-----------------------------------------------------------------------------
(* Alert latches: checkAlerts                                              *)

Latches == {"version", "instance", "credit"}

\* sendAlert: the message is handed to the sink; the failAt-th call of a tick
\* returns an error (failAt = 0: none does)
Send(sent, latch, kind, failAt) ==
    Append(sent, [latch |-> latch, kind |-> kind, ok |-> Len(sent) + 1 # failAt])

Failed(sent) == Len(sent) > 0 /\ ~sent[Len(sent)].ok

NotifyNoLatch(r, latch, kind, flag, value, failAt) ==
    LET s == Send(r.sent, latch, kind, failAt)
    IN  IF Failed(s) THEN [r EXCEPT !.sent = s, !.err = TRUE] ELSE [r EXCEPT !.sent = s]
NotifySetOnError(r, latch, kind, flag, value, failAt) ==
    LET s == Send(r.sent, latch, kind, failAt)
    IN  [r EXCEPT !.sent = s, !.err = Failed(s), !.AlertState[flag] = value]
\* one latch step: send, and on success set the flag; r is [AlertState, sent, err]
Notify(r, latch, kind, flag, value, failAt) ==
    LET s == Send(r.sent, latch, kind, failAt)
    IN  IF Failed(s)
        THEN [r EXCEPT !.sent = s, !.err = TRUE]
        ELSE [r EXCEPT !.sent = s, !.AlertState[flag] = value]

HasVersionMismatch(mm) ==
    \E w \in 1..Len(mm.User.Workers) :
        \E i \in 1..Len(mm.User.Workers[w].Instances) :
            mm.User.Workers[w].Instances[i].VersionMismatch

checkVersionMismatch(mm, r, failAt) ==
    LET has == HasVersionMismatch(mm)
    IN  IF has /\ ~r.AlertState.VersionMismatchAlerted
        THEN Notify(r, "version", "problem", "VersionMismatchAlerted", TRUE, failAt)
        ELSE IF ~has /\ r.AlertState.VersionMismatchAlerted
        THEN Notify(r, "version", "resolved", "VersionMismatchAlerted", FALSE, failAt)
        ELSE r

\* time.Since(InstanceMismatchStart) >= 5*time.Minute
GraceElapsed(start, t) == t - start >= GraceMinutes * Minute

checkInstanceCount(mm, config, r, failAt, t) ==
    IF ~config.Enabled THEN r
    ELSE IF mm.User.VastaiCredit = Nil THEN r
    ELSE IF mm.User.InstancesMismatch
    THEN LET r1 == IF r.AlertState.InstanceMismatchStart = ZeroTime
                   THEN [r EXCEPT !.AlertState.InstanceMismatchStart = t]
                   ELSE r
         IN  IF GraceElapsed(r1.AlertState.InstanceMismatchStart, t)
                /\ ~r1.AlertState.InstanceCountAlerted
             THEN Notify(r1, "instance", "problem", "InstanceCountAlerted", TRUE, failAt)
             ELSE r1
    ELSE LET r1 == IF r.AlertState.InstanceCountAlerted
                   THEN Notify(r, "instance", "resolved", "InstanceCountAlerted", FALSE, failAt)
                   ELSE r
         IN  IF r1.err THEN r1
             ELSE [r1 EXCEPT !.AlertState.InstanceMismatchStart = ZeroTime]

checkCredit(mm, config, r, failAt) ==
    IF ~config.Enabled THEN r
    ELSE IF mm.User.VastaiCredit = Nil THEN r
    ELSE IF Val(mm.User.VastaiCredit).Credit <= mm.User.TotalDailyCost
            /\ ~r.AlertState.CreditAlerted
    THEN Notify(r, "credit", "problem", "CreditAlerted", TRUE, failAt)
    ELSE IF Val(mm.User.VastaiCredit).Credit > mm.User.TotalDailyCost
            /\ r.AlertState.CreditAlerted
    THEN Notify(r, "credit", "resolved", "CreditAlerted", FALSE, failAt)
    ELSE r

\* checkAlerts returns at the first check that returns an error
checkAlerts(mm, config, failAt, t) ==
    LET r0 == [AlertState |-> mm.AlertState, sent |-> <<>>, err |-> FALSE]
        r1 == checkVersionMismatch(mm, r0, failAt)
        r2 == checkInstanceCount(mm, config, r1, failAt, t)
    IN  IF r1.err THEN r1
        ELSE IF r2.err THEN r2
        ELSE checkCredit(mm, config, r2, failAt)


-----------------------------------------------------------------------------
(* A minute tick: collectMinuteMetrics                                     *)

ZeroAlertState ==
    [VersionMismatchAlerted |-> FALSE, InstanceCountAlerted |-> FALSE,
     CreditAlerted |-> FALSE, InstanceMismatchStart |-> ZeroTime]

\* the zero value of *Metrics' fields
ZeroMetrics ==
    [General |-> [RunningInstanceCount |-> 0, RPM |-> 0, GenerationsHistory |-> <<>>],
     User    |-> [GenerationsHistory |-> <<>>, Workers |-> <<>>,
                  TotalInstances |-> 0, TotalDailyCost |-> 0]]

\* what a tick that got the primary metrics does: build, check the alerts, store
\* the alert state, append the sample; out is what it sends on the channel
TickBody(metrics, in, c, as, m, t) ==
    LET mm0 == BuildMinuteMetrics(metrics, in, c, as, t)
        r   == checkAlerts(mm0, c, in.failAt, t)
        mm  == [mm0 EXCEPT !.AlertState = r.AlertState]
    IN  [err |-> FALSE, AlertState |-> mm.AlertState, stats |-> UpdateStats(m, mm, t),
         out |-> Some(mm), sent |-> r.sent]

collectMinuteMetricsNoReturn(in, c, as, m, t) ==
    LET got == GetAllMetrics(in.primary)
    IN  TickBody(IF got.ok THEN got.val ELSE ZeroMetrics, in, c, as, m, t)
\* collectMinuteMetrics with the fetch results in, the configuration c, the alert
\* state as, the window m, at time t
collectMinuteMetrics(in, c, as, m, t) ==
    LET got == GetAllMetrics(in.primary)
    IN  IF ~got.ok
        THEN [err |-> TRUE, AlertState |-> as, stats |-> m, out |-> Nil, sent |-> <<>>]
        ELSE TickBody(got.val, in, c, as, m, t)

-----------------------------------------------------------------------------
(* Inputs of a tick                                                        *)

Worker(mismatch) == [InstanceCount |-> 1, DailyCost |-> 1,
                     Instances |-> <<[VersionMismatch |-> mismatch]>>]
WorkerLists == { <<Worker(FALSE)>>, <<Worker(FALSE), Worker(TRUE)>> }
RunningCounts == {3}
UserHistories == { <<1>> }

PrimaryResponses ==
    {Err} \cup
    { Ok([RunningInstanceCount |-> n, RPM |-> 4, GeneralGenerationsHistory |-> <<6>>,
          UserGenerationsHistory |-> h, Workers |-> w]) :
        n \in RunningCounts, h \in UserHistories, w \in WorkerLists }
InstanceResults == {Err, Ok(1), Ok(2)}
CreditResults == {Err, Ok(2), Ok(4)}
CostResults == {Err, Ok(3)}
FailAts == 0..1

\* the fetches a tick makes under configuration c (a fetch that is not made is Err)
TickInputs(c) ==
    [primary   : PrimaryResponses,
     instances : IF c.vastaiToken # "" THEN InstanceResults ELSE {Err},
     credit    : IF c.vastaiToken # "" /\ c.includeVastaiCost THEN CreditResults ELSE {Err},
     cost      : IF c.vastaiToken # "" /\ c.includeVastaiCost THEN CostResults ELSE {Err},
     failAt    : FailAts]

Configs == [vastaiToken : {"", "token"}, includeVastaiCost : BOOLEAN, Enabled : BOOLEAN]

-----------------------------------------------------------------------------
(* History kept for the properties                                         *)

\* the kind of the last delivered notification of each latch after sent
RECURSIVE KindsAfter(_, _, _)
KindsAfter(k, sent, i) ==
    IF i > Len(sent) THEN k
    ELSE KindsAfter(IF sent[i].ok /\ sent[i].latch \in Latches
                    THEN [k EXCEPT ![sent[i].latch] = sent[i].kind] ELSE k,
                    sent, i + 1)

\* the run of ticks whose two instance counts disagree
DisagreeAfter(since, res, t) ==
    IF res.err THEN since
    ELSE IF Val(res.out).User.TotalInstances # Val(res.out).User.ActualTotalInstances
    THEN (IF since = ZeroTime THEN t ELSE since)
    ELSE ZeroTime

\* what a tick did: its kind, whether its primary fetch succeeded, whether it
\* returned an error, what it handed to the sink, and which of the secondary fetches
\* it made failed
TickRecord(kind, in, c, res) ==
    Some([kind |-> kind, primaryOk |-> in.primary.ok, err |-> res.err, sent |-> res.sent,
          failed |-> {f \in {"instances", "credit", "cost"} :
                         /\ ~res.err
                         /\ ~in[f].ok
                         /\ c.vastaiToken # ""
                         /\ IF f = "instances" THEN kind = "minute"
                                                 ELSE c.includeVastaiCost}])

Histories(tick, kinds, since, drop) ==
    /\ lastTick' = tick
    /\ lastKind' = kinds
    /\ disagreeSince' = since
    /\ dropped' = drop
    /\ hourly' = Nil
    /\ call' = Nil

KeepHistories == Histories(Nil, lastKind, disagreeSince, "none")

-----------------------------------------------------------------------------
(* A daily tick: collectDailyMetrics                                       *)

\* 24 * time.Hour in minutes, the period dailyTimer is reset to
DayMinutes == 1440

collectDailyMetricsBalance(in, c, t) ==
    LET got == GetAllMetrics(in.primary)
    IN  IF ~got.ok
        THEN [err |-> TRUE, sent |-> <<>>, out |-> Nil]
        ELSE LET vastai == VastaiCostField(c, in.cost)
                 kuzco  == got.val.User.TotalDailyCost
                 daily  == Send(<<>>, "daily", "daily", in.failAt)
             IN  [err  |-> FALSE,
                  sent |-> IF c.vastaiToken # "" /\ c.includeVastaiCost /\ in.credit.ok
                           THEN Send(daily, "daily", "daily", in.failAt)
                           ELSE daily,
                  out  |-> Some([KuzcoTotalCost  |-> kuzco,
                                 VastaiTotalCost |-> vastai,
                                 TotalDailyCost  |-> TotalCostField(c, kuzco, vastai),
                                 Timestamp       |-> t])]
collectDailyMetrics(in, c, t) ==
    LET got == GetAllMetrics(in.primary)
    IN  IF ~got.ok
        THEN [err |-> TRUE, sent |-> <<>>, out |-> Nil]
        ELSE LET vastai == VastaiCostField(c, in.cost)
                 kuzco  == got.val.User.TotalDailyCost
             IN  [err  |-> FALSE,
                  sent |-> Send(<<>>, "daily", "daily", in.failAt),
                  out  |-> Some([KuzcoTotalCost  |-> kuzco,
                                 VastaiTotalCost |-> vastai,
                                 TotalDailyCost  |-> TotalCostField(c, kuzco, vastai),
                                 Timestamp       |-> t])]

DailyInputs(c) ==
    [primary   : PrimaryResponses,
     instances : {Err},
     credit    : IF c.vastaiToken # "" /\ c.includeVastaiCost THEN CreditResults ELSE {Err},
     cost      : IF c.vastaiToken # "" /\ c.includeVastaiCost THEN CostResults ELSE {Err},
     failAt    : 0..1]

-----------------------------------------------------------------------------
(* The scheduler loop of CollectMetrics and the consumer goroutine of main *)

\* d minutes pass once the timers are set and the initial tick is called: the
\* ticker fires into its channel of capacity 1 (a firing that finds the channel
\* full is dropped), the daily timer fires when due; both are stopped when
\* CollectMetrics returns
TimePasses(d) ==
    /\ pc # "start"
    /\ now + d * Minute <= MaxTime
    /\ now' = now + d * Minute
    /\ minuteTickerC' = IF pc = "done" THEN minuteTickerC
                        ELSE IF minuteTickerC + d <= ChanCap THEN minuteTickerC + d
                        ELSE ChanCap
    /\ dailyTimerC' = IF pc # "done" /\ now < dailyDue /\ dailyDue <= now' THEN 1
                      ELSE dailyTimerC
    /\ Histories(Nil, lastKind, disagreeSince,
                 IF pc = "done" \/ minuteTickerC + d <= ChanCap THEN "none" ELSE pc)
    /\ UNCHANGED <<envVars, cfg, pc, dailyDue, alertState, stats, pending, minuteChan, dailyChan,
                   currentMetrics, inflight, ticks>>

StartMinuteAsync(from, to) ==
    /\ pc = from
    /\ ticks < MaxTicks
    /\ pc' = "select"
    /\ inflight' = inflight + 1
    /\ ticks' = ticks + 1
\* the loop calls collectMinuteMetrics and waits for it to return
StartMinute(from, to) ==
    /\ pc = from
    /\ ticks < MaxTicks
    /\ pc' = to
    /\ inflight' = inflight + 1
    /\ ticks' = ticks + 1

InitialMinuteSkipped ==
    /\ pc = "start"
    /\ pc' = "select"
    /\ KeepHistories
    /\ UNCHANGED <<envVars, now, cfg, minuteTickerC, dailyTimerC, dailyDue, alertState, stats,
                   pending, minuteChan, dailyChan, currentMetrics, inflight, ticks>>
\* "초기 메트릭스 수집": the tick made before the loop is entered
InitialMinute ==
    /\ StartMinute("start", "minute")
    /\ KeepHistories
    /\ UNCHANGED <<envVars, now, cfg, minuteTickerC, dailyTimerC, dailyDue, alertState, stats,
                   pending, minuteChan, dailyChan, currentMetrics>>

\* "case <-minuteTicker.C"
BeginMinute ==
    /\ minuteTickerC > 0
    /\ StartMinute("select", "minute")
    /\ minuteTickerC' = minuteTickerC - 1
    /\ KeepHistories
    /\ UNCHANGED <<envVars, now, cfg, dailyTimerC, dailyDue, alertState, stats,
                   pending, minuteChan, dailyChan, currentMetrics>>

RunMinuteRetry(in) ==
    /\ pc = "minute"
    /\ LET res == collectMinuteMetrics(in, cfg, alertState, stats, now)
       IN  /\ alertState' = res.AlertState
           /\ stats' = res.stats
           /\ pending' = res.out
           /\ pc' = IF res.err THEN "minute" ELSE "sendMinute"
           /\ inflight' = inflight
           /\ Histories(TickRecord("minute", in, cfg, res),
                        KindsAfter(lastKind, res.sent, 1),
                        DisagreeAfter(disagreeSince, res, now), "none")
    /\ UNCHANGED <<envVars, ticks, now, cfg, minuteTickerC, dailyTimerC, dailyDue, minuteChan, dailyChan,
                   currentMetrics>>
\* the body of collectMinuteMetrics up to "ch <- mm", or its error return
RunMinute(in) ==
    /\ pc = "minute"
    /\ LET res == collectMinuteMetrics(in, cfg, alertState, stats, now)
       IN  /\ alertState' = res.AlertState
           /\ stats' = res.stats
           /\ pending' = res.out
           /\ pc' = IF res.err THEN "select" ELSE "sendMinute"
           /\ inflight' = IF res.err THEN inflight - 1 ELSE inflight
           /\ Histories(TickRecord("minute", in, cfg, res),
                        KindsAfter(lastKind, res.sent, 1),
                        DisagreeAfter(disagreeSince, res, now), "none")
    /\ UNCHANGED <<envVars, ticks, now, cfg, minuteTickerC, dailyTimerC, dailyDue, minuteChan, dailyChan,
                   currentMetrics>>

\* "ch <- mm" into minuteChan, after which collectMinuteMetrics returns nil
SendMinute ==
    /\ pc = "sendMinute"
    /\ Len(minuteChan) < ChanCap
    /\ minuteChan' = Append(minuteChan, Val(pending))
    /\ pending' = Nil
    /\ pc' = "select"
    /\ inflight' = inflight - 1
    /\ KeepHistories
    /\ UNCHANGED <<envVars, ticks, now, cfg, minuteTickerC, dailyTimerC, dailyDue, alertState, stats,
                   dailyChan, currentMetrics>>

\* the consumer: "case mm := <-minuteChan: updateCurrentMetrics(mm)"
ReceiveMinute ==
    /\ Len(minuteChan) > 0
    /\ currentMetrics' = Some(Head(minuteChan))
    /\ minuteChan' = Tail(minuteChan)
    /\ KeepHistories
    /\ UNCHANGED <<envVars, ticks, now, cfg, pc, minuteTickerC, dailyTimerC, dailyDue, alertState, stats,
                   pending, dailyChan, inflight>>

\* "case <-dailyTimer.C": the loop calls collectDailyMetrics and waits for it
BeginDaily ==
    /\ pc = "select"
    /\ dailyTimerC > 0
    /\ dailyTimerC' = dailyTimerC - 1
    /\ pc' = "daily"
    /\ KeepHistories
    /\ UNCHANGED <<envVars, ticks, now, cfg, minuteTickerC, dailyDue, alertState, stats, pending,
                   minuteChan, dailyChan, currentMetrics, inflight>>

\* the body of collectDailyMetrics up to "ch <- DailyMetrics{...}", or its error
\* return, after which the loop resets the timer
RunDaily(in) ==
    /\ pc = "daily"
    /\ LET res == collectDailyMetrics(in, cfg, now)
       IN  /\ pending' = res.out
           /\ pc' = IF res.err THEN "select" ELSE "sendDaily"
           /\ dailyDue' = IF res.err THEN now + DayMinutes ELSE dailyDue
           /\ Histories(TickRecord("daily", in, cfg, res), lastKind, disagreeSince, "none")
    /\ UNCHANGED <<envVars, ticks, now, cfg, minuteTickerC, dailyTimerC, alertState, stats, minuteChan,
                   dailyChan, currentMetrics, inflight>>

\* "ch <- DailyMetrics{...}", the return, and dailyTimer.Reset(24 * time.Hour)
SendDaily ==
    /\ pc = "sendDaily"
    /\ Len(dailyChan) < ChanCap
    /\ dailyChan' = Append(dailyChan, Val(pending))
    /\ pending' = Nil
    /\ pc' = "select"
    /\ dailyDue' = now + DayMinutes
    /\ KeepHistories
    /\ UNCHANGED <<envVars, ticks, now, cfg, minuteTickerC, dailyTimerC, alertState, stats, minuteChan,
                   currentMetrics, inflight>>

\* the consumer: "case <-dailyChan"
ReceiveDaily ==
    /\ Len(dailyChan) > 0
    /\ dailyChan' = Tail(dailyChan)
    /\ KeepHistories
    /\ UNCHANGED <<envVars, ticks, now, cfg, pc, minuteTickerC, dailyTimerC, dailyDue, alertState, stats,
                   pending, minuteChan, currentMetrics, inflight>>

-----------------------------------------------------------------------------
(* Specifications                                                          *)

\* minutes from the start to the first UTC midnight (nextMidnight.Sub(now))
DailyDues == {2, 4}
\* minutes that pass in one step of the clock
TimeSteps == {1, 5}

InitWith(configs, dues) ==
    /\ now = 0
    /\ cfg \in configs
    /\ pc = "start"
    /\ minuteTickerC = 0
    /\ dailyTimerC = 0
    /\ dailyDue \in dues
    /\ alertState = ZeroAlertState
    /\ stats = <<>>
    /\ pending = Nil
    /\ minuteChan = <<>>
    /\ dailyChan = <<>>
    /\ currentMetrics = Nil
    /\ inflight = 0
    /\ hourly = Nil
    /\ lastTick = Nil
    /\ lastKind = [l \in Latches |-> "none"]
    /\ disagreeSince = ZeroTime
    /\ dropped = "none"
    /\ ticks = 0
    /\ stop = "open"
    /\ proc = "running"
    /\ held = [l \in Locks |-> "free"]
    /\ at = [t \in Tasks |-> IF t = "collector" THEN "start" ELSE "idle"]
    /\ heap = <<>>
    /\ view = NoView
    /\ mon = NoCycle
    /\ writer = [a \in Accounts |-> NoUpdate]
    /\ monitors = NoMonitoring
    /\ latching = NoLatching
    /\ session = NoSession

\* a first midnight after the last minute of the clock
NoMidnight == MaxTime + DayMinutes

\* the clock as the ticks read it: time passes between rounds, while the loop waits
\* in its select with the last firing consumed and the consumer has taken the last
\* snapshot (a step of more than a minute is the time a slow round took, the
\* firings in between having been dropped)
IdleTimePasses(d) ==
    /\ pc = "select"
    /\ minuteTickerC = 0
    /\ minuteChan = <<>>
    /\ TimePasses(d)

\* the minute ticks of one CollectMetrics call under every configuration, the
\* first midnight lying after the last minute of the clock
Init == InitWith(Configs, {NoMidnight}) /\ call = Nil

Next ==
    \/ \E d \in TimeSteps : IdleTimePasses(d)
    \/ InitialMinute
    \/ BeginMinute
    \/ \E in \in TickInputs(cfg) : RunMinute(in)
    \/ SendMinute
    \/ ReceiveMinute

Spec == Init /\ [][Next]_vars

\* the scheduler of one CollectMetrics call with its timers running freely: time
\* passes at any point of a tick, the first midnight falls inside the run
SchedConfig == [vastaiToken |-> "", includeVastaiCost |-> FALSE, Enabled |-> FALSE]

InitSched == InitWith({SchedConfig}, DailyDues) /\ call = Nil

NextSched ==
    \/ TimePasses(1)
    \/ InitialMinute
    \/ BeginMinute
    \/ \E in \in TickInputs(cfg) : RunMinute(in)
    \/ SendMinute
    \/ ReceiveMinute
    \/ BeginDaily
    \/ \E in \in DailyInputs(cfg) : RunDaily(in)
    \/ SendDaily
    \/ ReceiveDaily

SpecSched == InitSched /\ [][NextSched]_vars

-----------------------------------------------------------------------------
(* Properties of the scheduler                                             *)

\* C7: at most one minute tick of a CollectMetrics call is running at any time,
\* and however many firings a slow tick misses, at most one is kept for later
C7_NoOverlapNoStacking == inflight <= 1 /\ minuteTickerC <= ChanCap

\* a minute tick is running that has outlasted its interval: one firing is kept
\* and a later one was dropped
C7_Witness ==
    /\ dropped \in {"minute", "sendMinute"}
    /\ inflight = 1
    /\ minuteTickerC = ChanCap

\* C8: the daily computation does not hold up the minute tick: no firing of the
\* minute ticker finds the firing before it still waiting for a daily computation
\* to end
C8_DailyDoesNotBlockMinute == dropped \notin {"daily", "sendDaily"}

-----------------------------------------------------------------------------
(* Properties of the alert latches                                         *)

\* a minute tick has just run and got the primary metrics
MinuteTickRan(tick) == tick # Nil /\ Val(tick).kind = "minute" /\ ~Val(tick).err

Flag(l) == CASE l = "version"  -> "VersionMismatchAlerted"
             [] l = "instance" -> "InstanceCountAlerted"
             [] l = "credit"   -> "CreditAlerted"

\* the messages of latch l and kind k among those handed to the sink
Handed(sent, l, k) == {i \in 1..Len(sent) : sent[i].latch = l /\ sent[i].kind = k}
Delivered(sent, l) == \E i \in 1..Len(sent) : sent[i].latch = l /\ sent[i].ok
WorkingSink(sent) == \A i \in 1..Len(sent) : sent[i].ok

\* the four cases of an edge-triggered latch
LatchStep(cond, was, is, sent, l) ==
    LET problems  == Cardinality(Handed(sent, l, "problem"))
        resolveds == Cardinality(Handed(sent, l, "resolved"))
    IN  /\ (cond /\ ~was)  => (problems = 1 /\ resolveds = 0 /\ is)
        /\ (cond /\ was)   => (problems = 0 /\ resolveds = 0 /\ is)
        /\ (~cond /\ was)  => (problems = 0 /\ resolveds = 1 /\ ~is)
        /\ (~cond /\ ~was) => (problems = 0 /\ resolveds = 0 /\ ~is)

\* the delivered notifications of latch l continue the alternation
\* problem, resolved, problem, ... after a last delivered one of kind last
Alternates(last, sent, l) ==
    \A i \in 1..Len(sent) :
        (sent[i].latch = l /\ sent[i].ok) =>
            /\ Cardinality(Handed(sent, l, "problem") \cup Handed(sent, l, "resolved")) = 1
            /\ sent[i].kind = "problem" => last \in {"none", "resolved"}
            /\ sent[i].kind = "resolved" => last = "problem"

LowCredit(mm) ==
    /\ mm.User.VastaiCredit # Nil
    /\ Val(mm.User.VastaiCredit).Credit <= mm.User.TotalDailyCost

\* the condition of latch l as the claim words it: a version mismatch, counts that
\* have disagreed on every tick of the last 5 minutes (since), a low credit
ClaimedCondition(l, mm, since, t) ==
    CASE l = "version"  -> HasVersionMismatch(mm)
      [] l = "instance" -> since # ZeroTime /\ t - since >= GraceMinutes * Minute
      [] l = "credit"   -> LowCredit(mm)

Evaluated(l, mm, c) == l = "version" \/ (c.Enabled /\ mm.User.VastaiCredit # Nil)

\* the condition of latch l on a tick that evaluates it; the grace timer of as
\* starts at this tick when it is not running
LatchCondition(l, mm, as, t) ==
    CASE l = "version"  -> HasVersionMismatch(mm)
      [] l = "instance" ->
             /\ mm.User.InstancesMismatch
             /\ t - (IF as.InstanceMismatchStart = ZeroTime THEN t
                     ELSE as.InstanceMismatchStart) >= GraceMinutes * Minute
      [] l = "credit"   -> LowCredit(mm)

C3_ProblemOnlyAfterGrace ==
    (MinuteTickRan(lastTick) /\ Handed(Val(lastTick).sent, "instance", "problem") # {}) =>
        (disagreeSince # ZeroTime /\ now - disagreeSince >= GraceMinutes * Minute)

\* C9: a minute tick whose primary fetch fails returns an error and changes
\* nothing: the latest snapshot, the window, the alert state and the channel are
\* as before, nothing is left to emit and nothing is handed to the sink
C9_PrimaryFailureAborts ==
    [][ (lastTick' # Nil /\ Val(lastTick').kind = "minute" /\ ~Val(lastTick').primaryOk) =>
            /\ Val(lastTick').err
            /\ currentMetrics' = currentMetrics
            /\ stats' = stats
            /\ alertState' = alertState
            /\ minuteChan' = minuteChan
            /\ pending' = Nil
            /\ Val(lastTick').sent = <<>> ]_vars

\* a tick has just failed on the primary fetch with a latest snapshot, a window
\* and a set latch in place
C9_Witness ==
    /\ lastTick # Nil
    /\ Val(lastTick).kind = "minute"
    /\ ~Val(lastTick).primaryOk
    /\ currentMetrics # Nil
    /\ Len(stats) > 0
    /\ alertState.VersionMismatchAlerted

\* C10: a minute tick whose primary fetch succeeds and of which a secondary fetch
\* fails appends its sample and has a snapshot to emit with the primary data; a
\* failed instance count leaves the primary count and no mismatch, a failed credit
\* no credit, a failed cost the cost 0, and the fetches that succeeded their values
C10_SecondaryFailureDegrades ==
    (lastTick # Nil /\ Val(lastTick).kind = "minute" /\ Val(lastTick).primaryOk
        /\ Val(lastTick).failed # {}) =>
        LET failed == Val(lastTick).failed
            fetched(f) == /\ f \notin failed
                          /\ cfg.vastaiToken # ""
                          /\ (f = "instances" \/ cfg.includeVastaiCost)
        IN  /\ ~Val(lastTick).err
            /\ pending # Nil
            /\ pc = "sendMinute"
            /\ Len(stats) > 0
            /\ stats[Len(stats)] = NewStat(Val(pending), now)
            /\ LET mm == Val(pending)
               IN  /\ mm.General.TotalInstances \in RunningCounts
                   /\ mm.General.RPM = 4
                   /\ mm.User.Workers \in WorkerLists
                   /\ mm.User.ActualTotalInstances = Len(mm.User.Workers)
                   /\ mm.User.KuzcoDailyCost = Len(mm.User.Workers)
                   /\ "instances" \in failed =>
                          /\ mm.User.TotalInstances = mm.User.ActualTotalInstances
                          /\ ~mm.User.InstancesMismatch
                   /\ "credit" \in failed => mm.User.VastaiCredit = Nil
                   /\ "cost" \in failed => mm.User.VastaiDailyCost = 0
                   /\ fetched("instances") => Ok(mm.User.TotalInstances) \in InstanceResults
                   /\ fetched("credit") =>
                          /\ mm.User.VastaiCredit # Nil
                          /\ Ok(Val(mm.User.VastaiCredit).Credit) \in CreditResults
                   /\ fetched("cost") => Ok(mm.User.VastaiDailyCost) \in CostResults

\* a tick has just run of which the instance-count and the credit fetch failed and
\* the cost fetch succeeded
C10_Witness ==
    /\ lastTick # Nil
    /\ Val(lastTick).kind = "minute"
    /\ Val(lastTick).failed = {"instances", "credit"}
    /\ pending # Nil

-----------------------------------------------------------------------------
(* The rolling window on its own: UpdateStats and GetStats called with     *)
(* samples and at times drawn from small sets                              *)

Sample(rpm, total, general, user) ==
    [General |-> [RPM |-> rpm, TotalInstances |-> total, GenerationLastHour |-> general],
     User    |-> [GenerationLastHour |-> user]]
SampleMetrics == {Sample(5, 2, 0, 1), Sample(10, 1, 2, 1), Sample(3, 2, 0, 0)}
StatsTimeSteps == {20, 30}

StatsTimePasses(d) ==
    /\ now + d * Minute <= MaxStatsTime
    /\ now' = now + d * Minute
    /\ KeepHistories
    /\ UNCHANGED <<envVars, cfg, pc, minuteTickerC, dailyTimerC, dailyDue, alertState, stats,
                   pending, minuteChan, dailyChan, currentMetrics, inflight, ticks>>

\* GlobalHourlyStats.UpdateStats(mm)
AppendSample(mm) ==
    /\ Len(UpdateStats(stats, mm, now)) <= MaxWindowLen
    /\ stats' = UpdateStats(stats, mm, now)
    /\ Histories(Some([kind |-> "append", evicted |-> Len(stats) + 1 - Len(stats')]),
                 lastKind, disagreeSince, "none")
    /\ UNCHANGED <<envVars, now, cfg, pc, minuteTickerC, dailyTimerC, dailyDue, alertState,
                   pending, minuteChan, dailyChan, currentMetrics, inflight, ticks>>

\* GlobalHourlyStats.GetStats()
ReadStats ==
    /\ hourly' = Some(GetStats(stats, now))
    /\ call' = Nil
    /\ lastTick' = Nil
    /\ dropped' = "none"
    /\ UNCHANGED <<envVars, now, cfg, pc, minuteTickerC, dailyTimerC, dailyDue, alertState, stats,
                   pending, minuteChan, dailyChan, currentMetrics, inflight, ticks,
                   lastKind, disagreeSince>>

InitStats ==
    /\ InitWith({[vastaiToken |-> "", includeVastaiCost |-> FALSE, Enabled |-> FALSE]},
                {NoMidnight})
    /\ call = Nil

NextStats ==
    \/ \E d \in StatsTimeSteps : StatsTimePasses(d)
    \/ \E mm \in SampleMetrics : AppendSample(mm)
    \/ ReadStats

SpecStats == InitStats /\ [][NextStats]_vars

-----------------------------------------------------------------------------
(* Properties of the rolling window                                        *)

Values(m, f) == {m[i][f] : i \in 1..Len(m)}
Smallest(S) == CHOOSE x \in S : \A y \in S : x <= y
Largest(S) == CHOOSE x \in S : \A y \in S : x >= y
RECURSIVE Total(_, _, _)
Total(m, f, n) == IF n = 0 THEN 0 ELSE Total(m, f, n - 1) + m[n][f]

\* C4: after every UpdateStats the window holds no sample whose timestamp is 60
\* minutes or more before the timestamp of the sample appended last
C4_WindowBounded ==
    \A i \in 1..Len(stats) :
        stats[Len(stats)].Timestamp - stats[i].Timestamp < WindowMinutes * Minute

\* an append has just evicted a sample and kept another
C4_Witness ==
    /\ lastTick # Nil
    /\ Val(lastTick).kind = "append"
    /\ Val(lastTick).evicted > 0
    /\ Len(stats) >= 2

\* the aggregate g of field f of the window m is the minimum, maximum, last value,
\* count, sum and sum/count of the stored values
AggregateOf(g, m, f) ==
    /\ g.Min = Smallest(Values(m, f))
    /\ g.Max = Largest(Values(m, f))
    /\ g.Current = m[Len(m)][f]
    /\ g.Count = Len(m)
    /\ g.Sum = Total(m, f, Len(m))
    /\ g.Avg.den # 0
    /\ g.Avg.num * g.Count = g.Sum * g.Avg.den

\* C5: GetStats of a non-empty window returns, for RPM and for total instances,
\* min, max, current, count, sum and avg = sum/count of the stored values, and the
\* first and last stored timestamps; RPM 5, 10, 3 give min 3, max 10, avg 6, current 3
C5_StatsOfWindow ==
    (hourly # Nil /\ Len(stats) > 0) =>
        LET h == Val(hourly)
        IN  /\ AggregateOf(h.RPM, stats, "RPM")
            /\ AggregateOf(h.TotalInstances, stats, "TotalInstances")
            /\ h.StartTime = stats[1].Timestamp
            /\ h.EndTime = stats[Len(stats)].Timestamp
            /\ Column(stats, "RPM") = <<5, 10, 3>> =>
                   /\ h.RPM.Min = 3
                   /\ h.RPM.Max = 10
                   /\ QuotIs(h.RPM.Avg, 6)
                   /\ h.RPM.Current = 3

\* GetStats has just read a window holding RPM 5, 10, 3
C5_Witness == hourly # Nil /\ Column(stats, "RPM") = <<5, 10, 3>>

\* C6: GetStats of an empty window returns zero in every numeric field; for any
\* window the ratio is 0 when the summed general generation count is 0, and no
\* quotient has a zero divisor
C6_EmptyAndZeroRatio ==
    hourly # Nil =>
        LET h == Val(hourly)
        IN  /\ Len(stats) = 0 =>
                /\ \A g \in {h.RPM, h.TotalInstances} :
                       /\ g.Min = 0 /\ g.Max = 0 /\ g.Current = 0
                       /\ g.Count = 0 /\ g.Sum = 0 /\ QuotIs(g.Avg, 0)
                /\ h.GenerationLastHour.General = 0
                /\ h.GenerationLastHour.User = 0
                /\ QuotIs(h.GenerationLastHour.Ratio, 0)
            /\ Total(stats, "GeneralGen", Len(stats)) = 0 =>
                   QuotIs(h.GenerationLastHour.Ratio, 0)
            /\ h.RPM.Avg.den # 0
            /\ h.TotalInstances.Avg.den # 0
            /\ h.GenerationLastHour.Ratio.den # 0

\* GetStats has just read a non-empty window whose general generation counts sum
\* to 0 while its user generation counts do not
C6_Witness ==
    /\ hourly # Nil
    /\ Len(stats) > 0
    /\ Total(stats, "GeneralGen", Len(stats)) = 0
    /\ Total(stats, "UserGen", Len(stats)) > 0

-----------------------------------------------------------------------------
(* Health monitor: the log scan VastaiClient.CheckInstanceLogs             *)

\* every variable but call: what a function call on its own leaves alone
collectorVars == <<now, cfg, pc, minuteTickerC, dailyTimerC, dailyDue, alertState, stats,
                   pending, minuteChan, dailyChan, currentMetrics, inflight, hourly,
                   lastTick, lastKind, disagreeSince, dropped, ticks, envVars>>

\* longest log the scan is given
MaxLogLines == 3

\* seconds in a minute: time.Duration.Minutes()
SecondsPerMinute == 60
\* the minutes the scan looks back: "for i := 0; i < 3; i++"
ScanMinutes == 3

\* int(x) of the float64 quotient a/b, b > 0: truncation toward zero
TruncDiv(a, b) == IF a >= 0 THEN a \div b ELSE -((-a) \div b)

\* A log line is [prefix, stamp, sig]: whether it starts with "[id|source]: ",
\* the first word after that (a timestamp, in seconds, or other text: Nil), and
\* whether it contains "Failed to send heartbeat: TimeoutError: timeout".
\* parseLogTimestamp parses the first word of the second ": "-separated part
parseLogTimestamp(line) ==
    IF ~line.prefix THEN Err
    ELSE IF line.stamp = Nil THEN Err
    ELSE Ok(Val(line.stamp))

\* the loop over the lines: timeoutDetected[minutesAgo] = true
RECURSIVE ScanLines(_, _, _, _)
ScanLines(lines, i, t, timeoutDetected) ==
    IF i > Len(lines) THEN timeoutDetected
    ELSE LET line       == lines[i]
             timestamp  == parseLogTimestamp(line)
             minutesAgo == TruncDiv(t - timestamp.val, SecondsPerMinute)
         IN  ScanLines(lines, i + 1, t,
                 IF line.sig /\ timestamp.ok /\ minutesAgo >= 0 /\ minutesAgo < ScanMinutes
                 THEN [timeoutDetected EXCEPT ![minutesAgo] = TRUE]
                 ELSE timeoutDetected)

\* CheckInstanceLogs at time t (seconds) on the downloaded body, Err when the
\* download fails
CheckInstanceLogs(body, t) ==
    IF ~body.ok THEN Err
    ELSE LET timeoutDetected ==
                 ScanLines(body.val, 1, t, [m \in 0..(ScanMinutes - 1) |-> FALSE])
         IN  Ok(timeoutDetected[0] /\ timeoutDetected[1] /\ timeoutDetected[2])

\* the scan time, and the age in seconds of the timestamps of the lines (a
\* negative age: the clock of the instance is ahead of the monitor's)
ScanTimes == {600}
LogAges == {-90, -30, 30, 90, 150, 180, 210}
LogLines ==
    {[prefix |-> TRUE, stamp |-> Some(t - a), sig |-> TRUE] : t \in ScanTimes, a \in LogAges}
    \cup {[prefix |-> TRUE, stamp |-> Nil, sig |-> TRUE]}
    \cup {[prefix |-> FALSE, stamp |-> Some(t - 30), sig |-> TRUE] : t \in ScanTimes}
    \cup {[prefix |-> TRUE, stamp |-> Some(t - 30), sig |-> FALSE] : t \in ScanTimes}
RECURSIVE SeqsUpTo(_, _)
SeqsUpTo(S, n) ==
    IF n = 0 THEN {<<>>}
    ELSE LET shorter == SeqsUpTo(S, n - 1)
         IN  shorter \cup {Append(q, x) : q \in shorter, x \in S}
LogBodies == {Err} \cup {Ok(lines) : lines \in SeqsUpTo(LogLines, MaxLogLines)}

\* a call of fn about to be made with its arguments, and the call once it returned
Called(fn, args) == Some([fn |-> fn, args |-> args, out |-> Nil])
Calling(fn) == call # Nil /\ Val(call).fn = fn /\ Val(call).out = Nil
Returned(fn) == call # Nil /\ Val(call).fn = fn /\ Val(call).out # Nil
Return(out) ==
    /\ call' = Some([Val(call) EXCEPT !.out = Some(out)])
    /\ UNCHANGED collectorVars

CheckLogs ==
    /\ Calling("CheckInstanceLogs")
    /\ Return(CheckInstanceLogs(Val(call).args.body, Val(call).args.at))

InitLogs ==
    /\ InitWith({SchedConfig}, {NoMidnight})
    /\ call \in {Called("CheckInstanceLogs", [body |-> body, at |-> t]) :
                     body \in LogBodies, t \in ScanTimes}
NextLogs == CheckLogs
SpecLogs == InitLogs /\ [][NextLogs]_vars

\* the log has a timeout line with a parseable timestamp between lo and hi
\* seconds before t
TimeoutIn(lines, t, lo, hi) ==
    \E i \in 1..Len(lines) :
        /\ lines[i].sig
        /\ parseLogTimestamp(lines[i]).ok
        /\ lo <= t - parseLogTimestamp(lines[i]).val
        /\ t - parseLogTimestamp(lines[i]).val < hi

\* C11: the scan of a downloaded log reports sustained failure exactly when each
\* of the minutes 0-1, 1-2 and 2-3 before the scan has a timeout line with a
\* parseable timestamp
C11_SustainedIffThreeBuckets ==
    (Returned("CheckInstanceLogs") /\ Val(call).args.body.ok) =>
        LET out == Val(Val(call).out)
        IN  /\ out.ok
            /\ out.val <=>
                   \A m \in 0..2 :
                       TimeoutIn(Val(call).args.body.val, Val(call).args.at,
                                 m * SecondsPerMinute, (m + 1) * SecondsPerMinute)

(***************************************************************************)
(* compareVersions (src/api/worker.go).  A version string is the sequence  *)
(* of its characters.                                                      *)
(***************************************************************************)
MaxVersionLen == 3

Digits == {"0", "1", "2", "3", "4", "5", "6", "7", "8", "9"}
DigitVal(c) ==
    CASE c = "0" -> 0 [] c = "1" -> 1 [] c = "2" -> 2 [] c = "3" -> 3 [] c = "4" -> 4
      [] c = "5" -> 5 [] c = "6" -> 6 [] c = "7" -> 7 [] c = "8" -> 8 [] c = "9" -> 9

\* strings.Split(s, sep) for a one-character separator: always at least one part
RECURSIVE SplitFrom(_, _, _)
SplitFrom(s, sep, cur) ==
    IF s = <<>> THEN <<cur>>
    ELSE IF Head(s) = sep THEN <<cur>> \o SplitFrom(Tail(s), sep, <<>>)
    ELSE SplitFrom(Tail(s), sep, Append(cur, Head(s)))
Split(s, sep) == SplitFrom(s, sep, <<>>)

\* strconv.Atoi: an optional sign, then one or more decimal digits; the strings
\* here are shorter than the 19 digits at which its range error starts
RECURSIVE AtoiDigits(_, _)
AtoiDigits(s, n) ==
    IF s = <<>> THEN Ok(n)
    ELSE IF Head(s) \notin Digits THEN Err
    ELSE AtoiDigits(Tail(s), n * 10 + DigitVal(Head(s)))
Atoi(s) ==
    LET signed == s # <<>> /\ Head(s) \in {"+", "-"}
        digits == IF signed THEN Tail(s) ELSE s
        parsed == AtoiDigits(digits, 0)
    IN  IF digits = <<>> \/ ~parsed.ok THEN Err
        ELSE IF signed /\ Head(s) = "-" THEN Ok(0 - parsed.val)
        ELSE parsed

NoMismatch == [mismatch |-> FALSE, diff |-> Nil]
Mismatch(kind, v1Parts, v2Parts) ==
    [mismatch |-> TRUE, diff |-> Some([kind |-> kind, left |-> v1Parts, right |-> v2Parts])]

\* one round of the loop: "continue" to go on with the next pair, else the kind
ComparePairIgnoreErr(c1, c2) ==
    LET n1 == IF Atoi(c1).ok THEN Atoi(c1).val ELSE 0
        n2 == IF Atoi(c2).ok THEN Atoi(c2).val ELSE 0
    IN  IF n1 # n2 THEN (IF n1 > n2 THEN "newer" ELSE "older") ELSE "continue"
ComparePair(c1, c2) ==
    LET r1 == Atoi(c1)
        r2 == Atoi(c2)
    IN  IF ~r1.ok \/ ~r2.ok THEN "continue"
        ELSE IF r1.val # r2.val THEN (IF r1.val > r2.val THEN "newer" ELSE "older")
        ELSE "continue"

RECURSIVE CompareFrom(_, _, _, _, _)
CompareFrom(i, v1Numbers, v2Numbers, v1Parts, v2Parts) ==
    IF ~(i < Len(v1Numbers) /\ i < Len(v2Numbers)) THEN NoMismatch
    ELSE LET r == ComparePair(v1Numbers[i + 1], v2Numbers[i + 1])
         IN  IF r = "continue"
             THEN CompareFrom(i + 1, v1Numbers, v2Numbers, v1Parts, v2Parts)
             ELSE Mismatch(r, v1Parts, v2Parts)

compareVersions(v1, v2) ==
    LET v1Parts == Split(v1, "-")[1]
        v2Parts == Split(v2, "-")[1]
    IN  CompareFrom(0, Split(v1Parts, "."), Split(v2Parts, "."), v1Parts, v2Parts)

\* the version strings compared: every string over VersionChars up to MaxVersionLen,
\* and the versions the worker API and the CLI are seen to report
VersionChars == {"0", "2", ".", "-", "a"}
ReportedVersions ==
    { <<"0", ".", "2", ".", "3", "-", "f", "e", "4", "d", "7", "3", "f">>,
      <<"0", ".", "2", ".", "3">>,
      <<"0", ".", "3", ".", "0">>,
      <<"0", ".", "2", ".", "9">>,
      <<"0", ".", "2">>,
      <<"0", ".", "2", ".", "1">>,
      <<"0", ".", "1", "0", ".", "1">> }
VersionStrings == SeqsUpTo(VersionChars, MaxVersionLen) \cup ReportedVersions

CompareVersions ==
    /\ Calling("compareVersions")
    /\ Return(compareVersions(Val(call).args.v1, Val(call).args.v2))

InitVersions ==
    /\ InitWith({SchedConfig}, {NoMidnight})
    /\ call \in {Called("compareVersions", [v1 |-> v1, v2 |-> v2]) :
                     v1 \in VersionStrings, v2 \in VersionStrings}
NextVersions == CompareVersions
SpecVersions == InitVersions /\ [][NextVersions]_vars

(***************************************************************************)
(* The comparison stated without the loop: where the separators stand, and *)
(* which pairs of components are integers that differ.                     *)
(***************************************************************************)
Least(S) == CHOOSE x \in S : \A y \in S : x <= y
NumericPrefix(v) ==
    LET dashes == {i \in 1..Len(v) : v[i] = "-"}
    IN  IF dashes = {} THEN v ELSE SubSeq(v, 1, Least(dashes) - 1)
Cuts(p) == {0, Len(p) + 1} \cup {i \in 1..Len(p) : p[i] = "."}
ComponentCount(p) == Cardinality(Cuts(p)) - 1
Component(p, k) ==
    LET lo == CHOOSE c \in Cuts(p) : Cardinality({d \in Cuts(p) : d < c}) = k - 1
        hi == CHOOSE c \in Cuts(p) : Cardinality({d \in Cuts(p) : d < c}) = k
    IN  SubSeq(p, lo + 1, hi - 1)
IsInteger(c) == c # <<>> /\ \A i \in 1..Len(c) : c[i] \in Digits
RECURSIVE Pow10(_)
Pow10(k) == IF k = 0 THEN 1 ELSE 10 * Pow10(k - 1)
RECURSIVE PlaceSum(_, _)
PlaceSum(c, i) ==
    IF i > Len(c) THEN 0 ELSE DigitVal(c[i]) * Pow10(Len(c) - i) + PlaceSum(c, i + 1)
NumberOf(c) == PlaceSum(c, 1)
Shorter(p, q) == IF ComponentCount(p) <= ComponentCount(q) THEN ComponentCount(p)
                 ELSE ComponentCount(q)
Differing(p, q) ==
    {k \in 1..Shorter(p, q) :
        /\ IsInteger(Component(p, k)) /\ IsInteger(Component(q, k))
        /\ NumberOf(Component(p, k)) # NumberOf(Component(q, k))}
Verdict(v1, v2) ==
    LET p == NumericPrefix(v1)
        q == NumericPrefix(v2)
    IN  IF Differing(p, q) = {} THEN "same"
        ELSE LET k == Least(Differing(p, q))
             IN  IF NumberOf(Component(p, k)) > NumberOf(Component(q, k))
                 THEN "newer" ELSE "older"
VerdictOf(out) == IF out.mismatch THEN Val(out.diff).kind ELSE "same"
Swapped(verdict) ==
    CASE verdict = "newer" -> "older" [] verdict = "older" -> "newer" [] OTHER -> verdict
Extends(p, q) ==
    /\ ComponentCount(p) <= ComponentCount(q)
    /\ \A k \in 1..ComponentCount(q) : IsInteger(Component(q, k))
    /\ \A k \in 1..ComponentCount(p) : Component(p, k) = Component(q, k)

\* C12: compareVersions(v1, v2) reports what the comparison of the dotted numeric
\* prefixes says: cut at the first '-', split on '.', compare pairwise up to the
\* shorter list, skip pairs with a non-integer, the first differing pair decides
\* newer/older, no differing pair is no mismatch; "0.2.3-fe4d73f" vs "0.2.3" is no
\* mismatch, "0.3.0" vs "0.2.9" is newer, swapping the arguments swaps newer and
\* older, and a prefix that merely extends the other is no mismatch.
C12_CompareVersionsIsReference ==
    Returned("compareVersions") =>
        LET v1  == Val(call).args.v1
            v2  == Val(call).args.v2
            out == Val(Val(call).out)
        IN  /\ VerdictOf(out) = Verdict(v1, v2)
            /\ out.mismatch <=> out.diff # Nil
            /\ VerdictOf(compareVersions(v2, v1)) = Swapped(VerdictOf(out))
            /\ (/\ v1 = <<"0", ".", "2", ".", "3", "-", "f", "e", "4", "d", "7", "3", "f">>
                /\ v2 = <<"0", ".", "2", ".", "3">>) => ~out.mismatch
            /\ (v1 = <<"0", ".", "3", ".", "0">> /\ v2 = <<"0", ".", "2", ".", "9">>)
                   => VerdictOf(out) = "newer"
            /\ (\/ Extends(NumericPrefix(v1), NumericPrefix(v2))
                \/ Extends(NumericPrefix(v2), NumericPrefix(v1))) => ~out.mismatch

\* a pair with a non-integer component was skipped and a later pair decided
C12_Witness ==
    /\ Returned("compareVersions")
    /\ Val(Val(call).out).mismatch
    /\ LET p == NumericPrefix(Val(call).args.v1)
           q == NumericPrefix(Val(call).args.v2)
       IN  \E k \in 1..Shorter(p, q) :
               /\ Differing(p, q) # {}
               /\ k < Least(Differing(p, q))
               /\ ~IsInteger(Component(p, k)) \/ ~IsInteger(Component(q, k))

(***************************************************************************)
(* Daily cost: LoadGPUPrices, normalizeGPUName and the cost and version    *)
(* loop of GetWorkers (src/api/worker.go), then the totals of              *)
(* GetAllMetrics.  A GPU name is the sequence of its words; money is in    *)
(* cents.                                                                  *)
(***************************************************************************)
MaxInstances == 2
MaxWorkers == 2
HoursPerDay == 24
DiskCostPerDay == 24

\* strings.TrimPrefix(name, prefix + " ")
TrimPrefix(name, prefix) ==
    IF Len(name) > Len(prefix) /\ SubSeq(name, 1, Len(prefix)) = prefix
    THEN SubSeq(name, Len(prefix) + 1, Len(name)) ELSE name

gpuMap ==
    ( <<"RTX", "3060">>       :> <<"RTX", "3060">>       ) @@
    ( <<"RTX", "3060", "Ti">> :> <<"RTX", "3060", "Ti">> ) @@
    ( <<"RTX", "3070">>       :> <<"RTX", "3070">>       ) @@
    ( <<"RTX", "3070", "Ti">> :> <<"RTX", "3070", "Ti">> ) @@
    ( <<"RTX", "3080">>       :> <<"RTX", "3080">>       ) @@
    ( <<"RTX", "3080", "Ti">> :> <<"RTX", "3080", "Ti">> ) @@
    ( <<"RTX", "3090">>       :> <<"RTX", "3090">>       ) @@
    ( <<"RTX", "4060">>       :> <<"RTX", "4060">>       ) @@
    ( <<"RTX", "4060", "Ti">> :> <<"RTX", "4060", "Ti">> ) @@
    ( <<"RTX", "4080">>       :> <<"RTX", "4080S">>      ) @@
    ( <<"RTX", "4090">>       :> <<"RTX", "4090">>       ) @@
    ( <<"A4000">>             :> <<"RTX", "A4000">>      )

normalizeGPUName(gpuName) ==
    LET trimmed == TrimPrefix(TrimPrefix(gpuName, <<"NVIDIA", "GeForce">>), <<"NVIDIA">>)
    IN  IF trimmed \in DOMAIN gpuMap THEN gpuMap[trimmed] ELSE trimmed

\* the map built from the entries of the price file, a later entry replacing an
\* earlier one of the same name
RECURSIVE PricesFrom(_, _, _)
PricesFrom(instances, i, prices) ==
    IF i > Len(instances) THEN prices
    ELSE PricesFrom(instances, i + 1,
                    [g \in DOMAIN prices \cup {instances[i].Gpu} |->
                        IF g = instances[i].Gpu
                        THEN instances[i].Price * HoursPerDay + DiskCostPerDay
                        ELSE prices[g]])
LoadGPUPrices(file) ==
    IF ~file.ok THEN Err ELSE Ok(PricesFrom(file.val, 1, [g \in {} |-> 0]))

\* the name looked up for an instance: "" (no words) when it reports no GPU
GpuModelRaw(inst) == IF inst.ProductName = Nil THEN <<>> ELSE Val(inst.ProductName)
GpuModel(inst) == IF inst.ProductName = Nil THEN <<>> ELSE normalizeGPUName(Val(inst.ProductName))

RECURSIVE DailyCostFrom(_, _, _, _)
DailyCostFrom(insts, i, gpuPrices, dailyCost) ==
    IF i > Len(insts) THEN dailyCost
    ELSE DailyCostFrom(insts, i + 1, gpuPrices,
                       IF GpuModel(insts[i]) \in DOMAIN gpuPrices
                       THEN dailyCost + gpuPrices[GpuModel(insts[i])]
                       ELSE dailyCost)

InstanceOf(inst, cliVersion) ==
    [VersionMismatch |-> IF inst.Version # <<>>
                         THEN compareVersions(inst.Version, cliVersion).mismatch
                         ELSE FALSE]

RECURSIVE WorkersFrom(_, _, _, _)
WorkersFrom(ws, i, gpuPrices, cliVersion) ==
    IF i > Len(ws) THEN <<>>
    ELSE IF ws[i].IsArchived THEN WorkersFrom(ws, i + 1, gpuPrices, cliVersion)
    ELSE << [InstanceCount |-> Len(ws[i].Instances),
             DailyCost     |-> DailyCostFrom(ws[i].Instances, 1, gpuPrices, 0),
             Instances     |-> [k \in 1..Len(ws[i].Instances) |->
                                    InstanceOf(ws[i].Instances[k], cliVersion)]] >>
         \o WorkersFrom(ws, i + 1, gpuPrices, cliVersion)

\* file is what reading the price file gives, cli the CLI version fetched and resp
\* the worker list fetched with the per-worker figures (Err when a fetch fails)
GetWorkers(file, cli, resp) ==
    IF ~LoadGPUPrices(file).ok THEN Err
    ELSE IF ~cli.ok THEN Err
    ELSE IF ~resp.ok THEN Err
    ELSE Ok(WorkersFrom(resp.val, 1, LoadGPUPrices(file).val, cli.val))

UserMetrics(file, cli, resp) ==
    LET workers == GetWorkers(file, cli, resp)
    IN  GetAllMetrics(IF ~workers.ok THEN Err
                      ELSE Ok([RunningInstanceCount |-> 3, RPM |-> 4,
                               GeneralGenerationsHistory |-> <<6>>,
                               UserGenerationsHistory |-> <<1>>,
                               Workers |-> workers.val]))

PriceFiles ==
    { Err,
      Ok(<< [Gpu |-> <<"RTX", "4080S">>, Price |-> 2], [Gpu |-> <<"RTX", "A4000">>, Price |-> 1] >>),
      Ok(<< [Gpu |-> <<"RTX", "4080">>, Price |-> 2], [Gpu |-> <<"A4000">>, Price |-> 1] >>),
      Ok(<< [Gpu |-> <<"RTX", "4080S">>, Price |-> 1], [Gpu |-> <<"RTX", "4080S">>, Price |-> 3] >>) }
CliVersions == { Ok(<<"0", ".", "2", ".", "3">>) }
InstanceInfos ==
    { [ProductName |-> Nil, Version |-> <<>>],
      [ProductName |-> Some(<<"NVIDIA", "GeForce", "RTX", "4080">>),
       Version |-> <<"0", ".", "2", ".", "3", "-", "f", "e", "4", "d", "7", "3", "f">>],
      [ProductName |-> Some(<<"NVIDIA", "A4000">>), Version |-> <<"0", ".", "2", ".", "1">>] }
WorkerInfos ==
    { [IsArchived |-> FALSE, Instances |-> insts] : insts \in SeqsUpTo(InstanceInfos, MaxInstances) }
    \cup { [IsArchived |-> TRUE,
            Instances |-> << [ProductName |-> Some(<<"NVIDIA", "A4000">>), Version |-> <<>>] >>] }
WorkerResponses == {Err} \cup {Ok(ws) : ws \in SeqsUpTo(WorkerInfos, MaxWorkers)}

GetUserMetrics ==
    /\ Calling("GetAllMetrics")
    /\ Return(UserMetrics(Val(call).args.file, Val(call).args.cli, Val(call).args.resp))

InitCosts ==
    /\ InitWith({SchedConfig}, {NoMidnight})
    /\ call \in {Called("GetAllMetrics", [file |-> f, cli |-> v, resp |-> r]) :
                     f \in PriceFiles, v \in CliVersions, r \in WorkerResponses}
NextCosts == GetUserMetrics
SpecCosts == InitCosts /\ [][NextCosts]_vars

(***************************************************************************)
(* The cost stated per instance: the price the file gives for the          *)
(* normalized name, 0 where the name is missing or not priced.             *)
(***************************************************************************)
RECURSIVE SumOf(_, _)
SumOf(f, S) == IF S = {} THEN 0
               ELSE LET x == CHOOSE y \in S : TRUE IN f[x] + SumOf(f, S \ {x})
Priced(file, name) == \E k \in 1..Len(file) : file[k].Gpu = name
PriceFound(file, name) ==
    LET last == CHOOSE k \in 1..Len(file) :
                    /\ file[k].Gpu = name
                    /\ \A j \in (k + 1)..Len(file) : file[j].Gpu # name
    IN  file[last].Price * HoursPerDay + DiskCostPerDay
Contribution(file, inst) ==
    IF inst.ProductName = Nil THEN 0
    ELSE IF ~Priced(file, normalizeGPUName(Val(inst.ProductName))) THEN 0
    ELSE PriceFound(file, normalizeGPUName(Val(inst.ProductName)))
CostOf(file, w) ==
    SumOf([k \in 1..Len(w.Instances) |-> Contribution(file, w.Instances[k])],
          1..Len(w.Instances))
Active(ws) == SelectSeq(ws, LAMBDA w : ~w.IsArchived)

-----------------------------------------------------------------------------
(* The snapshots a minute tick emits                                       *)

\* every snapshot built by a tick and not yet replaced: the one about to be sent,
\* those in the channel and the one the consumer stored
Emitted ==
    (IF pending = Nil THEN {} ELSE {Val(pending)})
        \cup {minuteChan[i] : i \in 1..Len(minuteChan)}
        \cup (IF currentMetrics = Nil THEN {} ELSE {Val(currentMetrics)})

\* C14: in every snapshot emitted by a minute tick, InstancesMismatch is true iff
\* TotalInstances and ActualTotalInstances differ, the secondary provider being
\* absent, failing or succeeding.
C14_MismatchIffCountsDiffer ==
    \A mm \in Emitted :
        mm.User.InstancesMismatch <=> mm.User.TotalInstances # mm.User.ActualTotalInstances

\* a tick whose secondary provider answered with another count has emitted its
\* snapshot, and the consumer has stored it
C14_Witness ==
    /\ cfg.vastaiToken # ""
    /\ currentMetrics # Nil
    /\ Val(currentMetrics).User.InstancesMismatch
    /\ Val(currentMetrics).User.TotalInstances # Val(currentMetrics).User.ActualTotalInstances

-----------------------------------------------------------------------------
(* The stop channel of CollectMetrics                                      *)

\* the owner of the stop channel closes it, at any moment of the collector's run
SignalStop ==
    /\ stop = "open"
    /\ stop' = "closed"
    /\ KeepHistories
    /\ UNCHANGED <<now, cfg, pc, minuteTickerC, dailyTimerC, dailyDue, alertState, stats,
                   pending, minuteChan, dailyChan, currentMetrics, inflight, ticks, proc,
                   taskVars>>

ReceiveStopAnywhere ==
    /\ pc \notin {"start", "done"}
    /\ stop = "closed"
    /\ pc' = "done"
    /\ KeepHistories
    /\ UNCHANGED <<now, cfg, minuteTickerC, dailyTimerC, dailyDue, alertState, stats,
                   pending, minuteChan, dailyChan, currentMetrics, inflight, ticks, stop,
                   proc, taskVars>>
\* "case <-stop: return": one of the cases of the select, chosen among those ready
ReceiveStop ==
    /\ pc = "select"
    /\ stop = "closed"
    /\ pc' = "done"
    /\ KeepHistories
    /\ UNCHANGED <<now, cfg, minuteTickerC, dailyTimerC, dailyDue, alertState, stats,
                   pending, minuteChan, dailyChan, currentMetrics, inflight, ticks, stop,
                   proc, taskVars>>

\* one CollectMetrics call whose stop channel may be closed at any moment, the
\* first midnight falling at minute 2
InitStop == InitWith({SchedConfig}, {2}) /\ call = Nil
\* the ticks of that call: the primary fetch fails or returns one worker list
StopInputs == {in \in TickInputs(SchedConfig) :
                  in.failAt = 0 /\ (in.primary.ok => Len(in.primary.val.Workers) = 1)}
NextStop ==
    \/ TimePasses(1)
    \/ InitialMinute
    \/ BeginMinute
    \/ \E in \in StopInputs : RunMinute(in)
    \/ SendMinute
    \/ ReceiveMinute
    \/ BeginDaily
    \/ \E in \in DailyInputs(cfg) : RunDaily(in)
    \/ SendDaily
    \/ ReceiveDaily
    \/ SignalStop
    \/ ReceiveStop
SpecStop == InitStop /\ [][NextStop]_vars

InTick == pc \in {"minute", "sendMinute", "daily", "sendDaily"}

-----------------------------------------------------------------------------
(* Shutdown: the end of main                                               *)

\* "<-sigChan", "Shutting down..." and the return of main, which ends the process
\* and with it every goroutine; stopChan is not touched
Shutdown ==
    /\ proc = "running"
    /\ proc' = "exited"
    /\ KeepHistories
    /\ UNCHANGED <<now, cfg, pc, minuteTickerC, dailyTimerC, dailyDue, alertState, stats,
                   pending, minuteChan, dailyChan, currentMetrics, inflight, ticks, stop,
                   taskVars>>

\* the collector and the consumer of one account while main waits for its signal;
\* nothing in main sends on stopChan or closes it, so the collector's "case <-stop"
\* is never ready
InitMain == InitWith({SchedConfig}, DailyDues) /\ call = Nil
NextMain ==
    \/ proc = "running" /\ NextSched
    \/ Shutdown
SpecMain == InitMain /\ [][NextMain]_vars

\* C16: when the process has received its stop signal and shut down, the stop
\* channel passed to CollectMetrics has been signalled, so that the collector
\* observes the stop at its next wait point and exits.
C16_StopSignalledOnShutdown == proc = "exited" => stop = "closed"

-----------------------------------------------------------------------------
(* The tasks step by step: every Lock, every section run under a lock and  *)
(* every network call is a position of its own.  A tick is numbered by     *)
(* ticks and its snapshot carries that number in all its figures but the   *)
(* fleet count, so that two snapshots never agree in a part.               *)

\* the variables of the scheduler that the step-by-step tasks leave alone
loopVars == <<now, cfg, pc, minuteTickerC, dailyTimerC, dailyDue, dailyChan, inflight, hourly,
              lastTick, lastKind, disagreeSince, dropped, call, stop, proc, writer, moreVars>>

FleetCounts == {0, 2}
Snapshot(n, fleet) == Sample(n, fleet, n, n)

Goto(t, pos) == at' = [at EXCEPT ![t] = pos]
\* sync.Mutex: Lock returns once the mutex is free, Unlock frees it
Lock(t, l) == held[l] = "free" /\ held' = [held EXCEPT ![l] = t]
Unlock(t, l) == held' = [held EXCEPT ![l] = "free"]

\* --- CollectMetrics and collectMinuteMetrics ---

\* the initial tick, or "case <-minuteTicker.C"
CollectorBegin ==
    /\ at["collector"] \in {"start", "select"}
    /\ ticks < MaxTicks
    /\ ticks' = ticks + 1
    /\ Goto("collector", "fetch")
    /\ UNCHANGED <<loopVars, mon, alertState, stats, pending, minuteChan, currentMetrics, held,
                   heap, view>>

\* the provider fetches: an error of the primary ends the tick, otherwise mm is built
CollectorFetch(ok, fleet) ==
    /\ at["collector"] = "fetch"
    /\ pending' = IF ok THEN Some(Snapshot(ticks, fleet)) ELSE Nil
    /\ Goto("collector", IF ok THEN "getState" ELSE "select")
    /\ UNCHANGED <<loopVars, mon, alertState, stats, minuteChan, currentMetrics, ticks, held,
                   heap, view>>

\* the Lock that opens getState, setState or UpdateStats
CollectorLock(pos, l) ==
    /\ at["collector"] = pos
    /\ Lock("collector", l)
    /\ Goto("collector", pos \o ".locked")
    /\ UNCHANGED <<loopVars, mon, alertState, stats, pending, minuteChan, currentMetrics, ticks,
                   heap, view>>

CollectorGetStateKeepsLock ==
    /\ at["collector"] = "getState.locked"
    /\ Goto("collector", "checkAlerts")
    /\ UNCHANGED <<loopVars, mon, alertState, stats, pending, minuteChan, currentMetrics,
                   ticks, held, heap, view>>
\* "mm.AlertState = globalAlertState.getState()": the copy, and the deferred Unlock
CollectorGetState ==
    /\ at["collector"] = "getState.locked"
    /\ Unlock("collector", "mu")
    /\ Goto("collector", "checkAlerts")
    /\ UNCHANGED <<loopVars, mon, alertState, stats, pending, minuteChan, currentMetrics, ticks,
                   heap, view>>

\* checkAlerts: its sends to the chat
CollectorCheckAlerts ==
    /\ at["collector"] = "checkAlerts"
    /\ Goto("collector", "setState")
    /\ UNCHANGED <<loopVars, mon, alertState, stats, pending, minuteChan, currentMetrics, ticks,
                   held, heap, view>>

\* "globalAlertState.setState(mm.AlertState)"
CollectorSetState ==
    /\ at["collector"] = "setState.locked"
    /\ alertState' = alertState
    /\ Unlock("collector", "mu")
    /\ Goto("collector", "UpdateStats")
    /\ UNCHANGED <<loopVars, mon, stats, pending, minuteChan, currentMetrics, ticks, heap, view>>

\* "GlobalHourlyStats.UpdateStats(mm)"
CollectorUpdateStats ==
    /\ at["collector"] = "UpdateStats.locked"
    /\ stats' = UpdateStats(stats, Val(pending), now)
    /\ Unlock("collector", "mutex")
    /\ Goto("collector", "send")
    /\ UNCHANGED <<loopVars, mon, alertState, pending, minuteChan, currentMetrics, ticks, heap,
                   view>>

\* a send that gives up when the channel is full: "select { case ch <- mm: default: }"
CollectorSendOrDrop ==
    /\ at["collector"] = "send"
    /\ minuteChan' = IF Len(minuteChan) < ChanCap THEN Append(minuteChan, Val(pending))
                                                 ELSE minuteChan
    /\ pending' = Nil
    /\ Goto("collector", "select")
    /\ UNCHANGED <<loopVars, mon, alertState, stats, currentMetrics, ticks, held, heap, view>>

\* "ch <- mm"
CollectorSend ==
    /\ at["collector"] = "send"
    /\ Len(minuteChan) < ChanCap
    /\ minuteChan' = Append(minuteChan, Val(pending))
    /\ pending' = Nil
    /\ Goto("collector", "select")
    /\ UNCHANGED <<loopVars, mon, alertState, stats, currentMetrics, ticks, held, heap, view>>

\* --- the consumer goroutine of main and updateCurrentMetrics ---

\* "case mm := <-minuteChan: updateCurrentMetrics(mm)": the parameter mm, whose
\* address is taken, is a new value on the heap for every call
ConsumerReceive ==
    /\ at["consumer"] = "idle"
    /\ Len(minuteChan) > 0
    /\ heap' = Append(heap, Head(minuteChan))
    /\ minuteChan' = Tail(minuteChan)
    /\ Goto("consumer", "updateCurrentMetrics")
    /\ UNCHANGED <<loopVars, mon, alertState, stats, pending, currentMetrics, ticks, held, view>>

ConsumerLock(pos, l) ==
    /\ at["consumer"] = pos
    /\ Lock("consumer", l)
    /\ Goto("consumer", pos \o ".locked")
    /\ UNCHANGED <<loopVars, mon, alertState, stats, pending, minuteChan, currentMetrics, ticks,
                   heap, view>>

StoreInPlace ==
    /\ IF currentMetrics = Nil
       THEN currentMetrics' = Some(Len(heap)) /\ heap' = heap
       ELSE /\ heap' = [heap EXCEPT ![Val(currentMetrics)].General = heap[Len(heap)].General]
            /\ currentMetrics' = currentMetrics
\* "currentMetrics = &mm"
Store ==
    /\ currentMetrics' = Some(Len(heap))
    /\ heap' = heap

\* the body of updateCurrentMetrics under metricsLock; in development mode it goes on
\* to api.UpdateMetrics with metricsLock still held, otherwise it returns
ConsumerStore(isDev) ==
    /\ at["consumer"] = "updateCurrentMetrics.locked"
    /\ Store
    /\ IF isDev
       THEN Goto("consumer", "UpdateMetrics") /\ held' = held
       ELSE Goto("consumer", "idle") /\ Unlock("consumer", "metricsLock")
    /\ UNCHANGED <<loopVars, mon, alertState, stats, pending, minuteChan, ticks, view>>

\* api.UpdateMetrics under globalMetricsLock, then the two deferred Unlocks
ConsumerUpdateMetrics ==
    /\ at["consumer"] = "UpdateMetrics.locked"
    /\ held' = [held EXCEPT !["globalMetricsLock"] = "free", !["metricsLock"] = "free"]
    /\ Goto("consumer", "idle")
    /\ UNCHANGED <<loopVars, mon, alertState, stats, pending, minuteChan, currentMetrics, ticks,
                   heap, view>>

\* --- a reporter or command handler: getCurrentMetrics or GetStats, then a message ---

ReporterLock(l, pos) ==
    /\ at["reporter"] = "idle"
    /\ Lock("reporter", l)
    /\ Goto("reporter", pos)
    /\ UNCHANGED <<loopVars, mon, alertState, stats, pending, minuteChan, currentMetrics, ticks,
                   heap, view>>

\* the body of getCurrentMetrics: nil or the pointer, and the deferred Unlock
ReporterGet ==
    /\ at["reporter"] = "getCurrentMetrics.locked"
    /\ view' = IF currentMetrics = Nil THEN NoView
               ELSE [p |-> Val(currentMetrics), was |-> Some(heap[Val(currentMetrics)]),
                     General |-> Nil, User |-> Nil]
    /\ Unlock("reporter", "metricsLock")
    /\ Goto("reporter", IF currentMetrics = Nil THEN "SendMessage" ELSE "read General")
    /\ UNCHANGED <<loopVars, mon, alertState, stats, pending, minuteChan, currentMetrics, ticks,
                   heap>>

\* the reporter formats its message from the fields behind the pointer
ReporterRead(part, next) ==
    /\ at["reporter"] = "read " \o part
    /\ view' = [view EXCEPT ![part] = Some(heap[view.p][part])]
    /\ Goto("reporter", next)
    /\ UNCHANGED <<loopVars, mon, alertState, stats, pending, minuteChan, currentMetrics, ticks,
                   held, heap>>

\* the body of GetStats: the aggregates are computed into a local value
ReporterGetStats ==
    /\ at["reporter"] = "GetStats.locked"
    /\ Unlock("reporter", "mutex")
    /\ Goto("reporter", "SendMessage")
    /\ UNCHANGED <<loopVars, mon, alertState, stats, pending, minuteChan, currentMetrics, ticks,
                   heap, view>>

\* telegramClient.SendMessage, after which the reporter waits for its next round
ReporterSend ==
    /\ at["reporter"] = "SendMessage"
    /\ view' = NoView
    /\ Goto("reporter", "idle")
    /\ UNCHANGED <<loopVars, mon, alertState, stats, pending, minuteChan, currentMetrics, ticks,
                   held, heap>>

\* --- the instance monitor: checkAndReboot of StartContinuousMonitoring ---

MaxMonitored == 2

\* TotalInstances.Current of GetStats: the fleet count of the newest sample, 0 for
\* an empty window
FleetCurrent == GetStats(stats, now).TotalInstances.Current

\* the Lock that opens a GetStats of the monitor
MonitorLock(from, to) ==
    /\ at["monitor"] = from
    /\ Lock("monitor", "mutex")
    /\ Goto("monitor", to)
    /\ UNCHANGED <<loopVars, mon, alertState, stats, pending, minuteChan, currentMetrics,
                   ticks, heap, view>>

\* the pre-check at the start of a cycle: with a count of 0 checkAndReboot returns
\* and the goroutine sleeps until the next cycle
MonitorPrecheck ==
    /\ at["monitor"] = "precheck.locked"
    /\ mon' = [NoCycle EXCEPT !.pre = Some(FleetCurrent)]
    /\ Unlock("monitor", "mutex")
    /\ Goto("monitor", IF FleetCurrent = 0 THEN "idle" ELSE "GetInstances")
    /\ UNCHANGED <<loopVars, alertState, stats, pending, minuteChan, currentMetrics, ticks,
                   heap, view>>

\* c.GetInstances(): an error ends the cycle, otherwise the loop starts
MonitorGetInstances(r) ==
    /\ at["monitor"] = "GetInstances"
    /\ mon' = IF r.ok THEN [mon EXCEPT !.instances = r.val, !.i = 1] ELSE mon
    /\ Goto("monitor", IF r.ok /\ r.val # <<>> THEN "RequestInstanceLogs" ELSE "idle")
    /\ UNCHANGED <<loopVars, alertState, stats, pending, minuteChan, currentMetrics, ticks,
                   held, heap, view>>

\* "continue", or the end of the loop body: the next instance, or the end of the cycle
Continue(m) ==
    /\ mon' = [m EXCEPT !.i = m.i + 1]
    /\ Goto("monitor", IF m.i < Len(m.instances) THEN "RequestInstanceLogs" ELSE "idle")

InstanceFailedAborts(m) ==
    /\ mon' = [m EXCEPT !.failed = m.failed \cup {m.i}]
    /\ Goto("monitor", "idle")
\* a failure for the instance in hand: logged, then "continue"
InstanceFailed(m) == Continue([m EXCEPT !.failed = m.failed \cup {m.i}])

\* c.RequestInstanceLogs(instance.ID)
MonitorRequestLogs(ok) ==
    /\ at["monitor"] = "RequestInstanceLogs"
    /\ LET m == [mon EXCEPT !.requested = mon.requested \cup {mon.i}]
       IN  IF ok THEN mon' = m /\ Goto("monitor", "CheckInstanceLogs")
           ELSE InstanceFailed(m)
    /\ UNCHANGED <<loopVars, alertState, stats, pending, minuteChan, currentMetrics, ticks,
                   held, heap, view>>

MonitorCheckLogsAny(r) ==
    /\ at["monitor"] = "CheckInstanceLogs"
    /\ IF ~r.ok THEN InstanceFailed(mon)
       ELSE /\ mon' = [mon EXCEPT !.timedOut = IF r.val THEN @ \cup {mon.i} ELSE @]
            /\ Goto("monitor", "recheck")
    /\ UNCHANGED <<loopVars, alertState, stats, pending, minuteChan, currentMetrics, ticks,
                   held, heap, view>>
\* c.CheckInstanceLogs(logResp.TempDownloadURL): the download and the scan
MonitorCheckLogs(r) ==
    /\ at["monitor"] = "CheckInstanceLogs"
    /\ IF ~r.ok THEN InstanceFailed(mon)
       ELSE IF r.val THEN /\ mon' = [mon EXCEPT !.timedOut = @ \cup {mon.i}]
                          /\ Goto("monitor", "recheck")
       ELSE Continue(mon)
    /\ UNCHANGED <<loopVars, alertState, stats, pending, minuteChan, currentMetrics, ticks,
                   held, heap, view>>

MonitorRecheckNoGate ==
    /\ at["monitor"] = "recheck.locked"
    /\ mon' = [mon EXCEPT !.re = Some(FleetCurrent)]
    /\ Unlock("monitor", "mutex")
    /\ Goto("monitor", "RebootInstance")
    /\ UNCHANGED <<loopVars, alertState, stats, pending, minuteChan, currentMetrics, ticks,
                   heap, view>>
\* the re-check made once the scan reported a sustained timeout
MonitorRecheck ==
    /\ at["monitor"] = "recheck.locked"
    /\ mon' = [mon EXCEPT !.re = Some(FleetCurrent),
                          !.skipped = IF FleetCurrent = 0 THEN mon.skipped \cup {mon.i}
                                      ELSE mon.skipped]
    /\ Unlock("monitor", "mutex")
    /\ Goto("monitor", IF FleetCurrent = 0 THEN "sendAlert skipped" ELSE "RebootInstance")
    /\ UNCHANGED <<loopVars, alertState, stats, pending, minuteChan, currentMetrics, ticks,
                   heap, view>>

\* c.RebootInstance(instance.ID)
MonitorReboot(ok) ==
    /\ at["monitor"] = "RebootInstance"
    /\ mon' = IF ok THEN [mon EXCEPT !.rebooted = mon.rebooted \cup {mon.i},
                                     !.reboots = Append(@, mon.i)]
              ELSE [mon EXCEPT !.failed = mon.failed \cup {mon.i},
                               !.reboots = Append(@, mon.i)]
    /\ Goto("monitor", IF ok THEN "sendAlert success" ELSE "sendAlert failed")
    /\ UNCHANGED <<loopVars, alertState, stats, pending, minuteChan, currentMetrics, ticks,
                   held, heap, view>>

\* the notification "Reboot Skipped", "Instance Reboot Failed" or "Instance Reboot
\* Success"; an error of the send is logged
MonitorSendAlert(what) ==
    /\ at["monitor"] = "sendAlert " \o what
    /\ Continue([mon EXCEPT !.alerts = Append(@, [i |-> mon.i, what |-> what])])
    /\ UNCHANGED <<loopVars, alertState, stats, pending, minuteChan, currentMetrics, ticks,
                   held, heap, view>>

InstanceLists == {[k \in 1..n |-> k] : n \in 0..MaxMonitored}
InstanceResponses == {Err} \cup {Ok(l) : l \in InstanceLists}
ScanResults == {Err, Ok(TRUE), Ok(FALSE)}

Monitor(responses) ==
    \/ MonitorLock("idle", "precheck.locked")
    \/ MonitorPrecheck
    \/ \E r \in responses : MonitorGetInstances(r)
    \/ \E ok \in BOOLEAN : MonitorRequestLogs(ok)
    \/ \E r \in ScanResults : MonitorCheckLogs(r)
    \/ MonitorLock("recheck", "recheck.locked")
    \/ MonitorRecheck
    \/ \E ok \in BOOLEAN : MonitorReboot(ok)
    \/ \E what \in {"skipped", "failed", "success"} : MonitorSendAlert(what)

Collector ==
    \/ CollectorBegin
    \/ \E ok \in BOOLEAN, fleet \in FleetCounts : CollectorFetch(ok, fleet)
    \/ CollectorLock("getState", "mu")
    \/ CollectorGetState
    \/ CollectorCheckAlerts
    \/ CollectorLock("setState", "mu")
    \/ CollectorSetState
    \/ CollectorLock("UpdateStats", "mutex")
    \/ CollectorUpdateStats
    \/ CollectorSend

\* the monitor beside the collector that fills the window (the consumer takes each
\* snapshot off the channel at once)
InitMonitor == InitWith({SchedConfig}, {NoMidnight}) /\ call = Nil
NextMonitor ==
    \/ Collector
    \/ ConsumerReceive
    \/ ConsumerLock("updateCurrentMetrics", "metricsLock")
    \/ ConsumerStore(FALSE)
    \/ Monitor(InstanceResponses)
SpecMonitor == InitMonitor /\ [][NextMonitor]_vars

\* all four tasks together, the monitor watching one instance
InitTasks == InitWith({SchedConfig}, {NoMidnight}) /\ call = Nil
NextTasks ==
    \/ Collector
    \/ Monitor({Err, Ok(<<1>>)})
    \/ ConsumerReceive
    \/ ConsumerLock("updateCurrentMetrics", "metricsLock")
    \/ \E isDev \in BOOLEAN : ConsumerStore(isDev)
    \/ ConsumerLock("UpdateMetrics", "globalMetricsLock")
    \/ ConsumerUpdateMetrics
    \/ ReporterLock("metricsLock", "getCurrentMetrics.locked")
    \/ ReporterGet
    \/ ReporterRead("General", "read User")
    \/ ReporterRead("User", "SendMessage")
    \/ ReporterLock("mutex", "GetStats.locked")
    \/ ReporterGetStats
    \/ ReporterSend
SpecTasks == InitTasks /\ [][NextTasks]_vars

\* the snapshots the ticks made so far can have built
Built == {Snapshot(n, fleet) : n \in 1..ticks, fleet \in FleetCounts}

\* C18: getCurrentMetrics gives nil or a pointer to a complete snapshot built by one
\* tick; the value behind a pointer a reader holds is never modified, and the parts
\* a reader reads through it, whatever is written meanwhile, are parts of one and
\* the same tick's snapshot.
C18_ReaderSeesOneTick ==
    /\ view.p # 0 =>
          /\ view.p \in 1..Len(heap)
          /\ heap[view.p] \in Built
          /\ heap[view.p] = Val(view.was)
    /\ (view.General # Nil /\ view.User # Nil) =>
          \E mm \in Built : mm.General = Val(view.General) /\ mm.User = Val(view.User)
    /\ currentMetrics # Nil => heap[Val(currentMetrics)] \in Built

\* the reader has read both parts through a pointer it got before the consumer
\* stored the snapshot of a later tick
C18_Witness ==
    /\ view.p # 0
    /\ view.General # Nil /\ view.User # Nil
    /\ currentMetrics # Nil
    /\ Val(currentMetrics) # view.p
    /\ heap[Val(currentMetrics)] # heap[view.p]

\* C19: a monitor cycle issues no reboot on a fleet count of 0 read from the
\* window's current sample: the pre-check that reads 0 ends the cycle before any
\* instance is fetched, the re-check that reads 0 sends the 'reboot skipped'
\* notification in place of the reboot, and a reboot is only ever issued straight
\* after a re-check that read a count other than 0.
C19_NoRebootOnEmptyFleet ==
    [][/\ (at["monitor"] = "precheck.locked" /\ at'["monitor"] # "precheck.locked"
              /\ FleetCurrent = 0)
          => (at'["monitor"] = "idle" /\ mon'.instances = <<>> /\ mon'.rebooted = {})
       /\ (at["monitor"] = "recheck.locked" /\ at'["monitor"] # "recheck.locked"
              /\ FleetCurrent = 0)
          => (at'["monitor"] = "sendAlert skipped" /\ mon'.rebooted = mon.rebooted)
       /\ (at'["monitor"] = "RebootInstance" /\ at["monitor"] # "RebootInstance")
          => (at["monitor"] = "recheck.locked" /\ FleetCurrent # 0 /\ mon.pre # Some(0))
       /\ mon'.rebooted # mon.rebooted
          => (\/ at["monitor"] = "RebootInstance" /\ mon.re # Nil /\ mon.re # Some(0)
              \/ mon'.rebooted = {})]_vars

\* the fleet went to zero between the pre-check and the re-check of an instance
\* with a sustained timeout, and the reboot was skipped
C19_Witness ==
    /\ at["monitor"] = "sendAlert skipped"
    /\ mon.pre # Nil /\ Val(mon.pre) > 0
    /\ mon.re = Some(0)
    /\ mon.i \in mon.skipped
    /\ mon.rebooted = {}

\* C20: a cycle that got its list of instances ends only after logs were requested
\* for every instance of the list, whatever failed for the others on the way.
C20_FailureDoesNotAbortCycle ==
    /\ (at["monitor"] = "idle" /\ mon.instances # <<>>)
          => mon.requested = 1..Len(mon.instances)
    /\ (at["monitor"] \notin {"idle", "precheck.locked", "GetInstances"})
          => /\ mon.i \in 1..Len(mon.instances)
             /\ mon.requested = IF at["monitor"] = "RequestInstanceLogs"
                                THEN 1..(mon.i - 1) ELSE 1..mon.i

\* a cycle over two instances ended with a failure for the first and the second
\* rebooted
C20_Witness ==
    /\ at["monitor"] = "idle"
    /\ Len(mon.instances) = 2
    /\ 1 \in mon.failed
    /\ 2 \in mon.rebooted
    /\ mon.requested = {1, 2}

\* the positions at which a task is inside a call over the network: a provider
\* fetch, a log request or download, a reboot, a send to the chat
NetworkCalls ==
    {"fetch", "checkAlerts", "SendMessage", "GetInstances", "RequestInstanceLogs",
     "CheckInstanceLogs", "RebootInstance", "sendAlert skipped", "sendAlert failed",
     "sendAlert success"}
\* the positions inside the function that took lock l, up to its deferred Unlock
Sections(l) ==
    CASE l = "metricsLock" -> {"updateCurrentMetrics.locked", "UpdateMetrics",
                               "UpdateMetrics.locked", "getCurrentMetrics.locked"}
      [] l = "mutex" -> {"UpdateStats.locked", "GetStats.locked", "precheck.locked",
                         "recheck.locked"}
      [] l = "mu" -> {"getState.locked", "setState.locked"}
      [] l = "globalMetricsLock" -> {"UpdateMetrics.locked"}

\* C17: no task is inside a network call while it holds the latest-snapshot lock,
\* the rolling-window mutex or the alert-state mutex: a held lock has its holder
\* inside the function that reads or replaces the value it guards.
C17_NoNetworkCallUnderLock ==
    /\ \A t \in Tasks : at[t] \in NetworkCalls => \A l \in Locks : held[l] # t
    /\ \A l \in Locks : held[l] # "free" => at[held[l]] \in Sections(l)

\* the three locks are held, each by a task inside its section, while the
\* collector is sending its alerts
C17_Witness ==
    /\ at["collector"] = "checkAlerts"
    /\ held["metricsLock"] = "consumer"
    /\ held["mutex"] = "monitor"
    /\ at["reporter"] = "SendMessage"

-----------------------------------------------------------------------------
(* Properties of one minute tick                                           *)

\* a message of latch l was handed to the sink, delivered or refused
HandedAny(sent, l) == \E i \in 1..Len(sent) : sent[i].latch = l

\* C21: on a minute tick that got the primary metrics, a sink error met by one
\* alert check does not keep the other checks from being made: every latch the
\* tick evaluates whose condition differs from its flag has its notification
\* handed to the sink; and the tick appends its sample and has its snapshot to emit
C21_FailureDoesNotBlockOthers ==
    [][ MinuteTickRan(lastTick') =>
            /\ \A l \in Latches :
                   (/\ Evaluated(l, Val(pending'), cfg)
                    /\ LatchCondition(l, Val(pending'), alertState, now') # alertState[Flag(l)])
                       => HandedAny(Val(lastTick').sent, l)
            /\ pending' # Nil
            /\ pc' = "sendMinute"
            /\ Len(stats') > 0
            /\ stats'[Len(stats')] = NewStat(Val(pending'), now') ]_vars

-----------------------------------------------------------------------------
(* Properties of the rolling window read at any time                       *)

\* C22: at a GetStats read every sample counted in the returned statistics (all
\* the stored ones: Count is their number, StartTime the oldest timestamp) is at
\* most 60 minutes older than the time of the read
C22_ReadWithinWindow ==
    hourly # Nil =>
        /\ Val(hourly).RPM.Count = Len(stats)
        /\ \A i \in 1..Len(stats) : now - stats[i].Timestamp <= WindowMinutes * Minute
        /\ Len(stats) > 0 => now - Val(hourly).StartTime <= WindowMinutes * Minute

-----------------------------------------------------------------------------
(* The one window shared by the collectors of several accounts: every      *)
(* collector calls GlobalHourlyStats.UpdateStats, its Lock, its time.Now() *)
(* and its append being steps of their own, while the clock runs           *)

\* every variable of the collector loop but the clock, the window and the read
accountVars == <<cfg, pc, minuteTickerC, dailyTimerC, dailyDue, alertState, pending,
                 minuteChan, dailyChan, currentMetrics, inflight, lastKind, disagreeSince,
                 ticks, stop, proc, at, heap, view, mon, moreVars>>

\* the time.Now() of a call that reads the clock when it is called
NowAtCall(a) == writer[a].called
\* "now := time.Now()" of UpdateStats, read with the mutex held
NowOfUpdate(a) == now

\* the collector of account a calls UpdateStats(metrics)
UpdateStatsCall(a, metrics) ==
    /\ writer[a].pos = "idle"
    /\ Len(stats) < MaxWindowLen
    /\ writer' = [writer EXCEPT ![a] = [pos |-> "Lock", metrics |-> Some(metrics),
                                        called |-> now, now |-> 0]]
    /\ KeepHistories
    /\ UNCHANGED <<accountVars, now, stats, held>>

\* "m.mutex.Lock()"
UpdateStatsLock(a) ==
    /\ writer[a].pos = "Lock"
    /\ Lock(a, "mutex")
    /\ writer' = [writer EXCEPT ![a].pos = "time.Now"]
    /\ KeepHistories
    /\ UNCHANGED <<accountVars, now, stats>>

\* "now := time.Now()"
UpdateStatsNow(a) ==
    /\ writer[a].pos = "time.Now"
    /\ writer' = [writer EXCEPT ![a].pos = "append", ![a].now = NowOfUpdate(a)]
    /\ KeepHistories
    /\ UNCHANGED <<accountVars, now, stats, held>>

\* the filter, the append, "m.stats = validStats" and the deferred Unlock
UpdateStatsAppend(a) ==
    /\ writer[a].pos = "append"
    /\ stats' = UpdateStats(stats, Val(writer[a].metrics), writer[a].now)
    /\ Unlock(a, "mutex")
    /\ writer' = [writer EXCEPT ![a] = NoUpdate]
    /\ Histories(Some([kind |-> "append", evicted |-> Len(stats) + 1 - Len(stats')]),
                 lastKind, disagreeSince, "none")
    /\ UNCHANGED <<accountVars, now>>

\* GetStats, which holds the mutex from its first statement to its return
GetStatsCall ==
    /\ held["mutex"] = "free"
    /\ ReadStats

InitAccounts == InitStats

\* minutes that pass in one step of the clock, and the samples the collectors hand in
AccountTimeSteps == {30}
AccountMetrics == {Sample(5, 2, 0, 1), Sample(10, 1, 2, 1)}

NextAccounts ==
    \/ \E d \in AccountTimeSteps : StatsTimePasses(d)
    \/ \E a \in Accounts, metrics \in AccountMetrics : UpdateStatsCall(a, metrics)
    \/ \E a \in Accounts : UpdateStatsLock(a)
    \/ \E a \in Accounts : UpdateStatsNow(a)
    \/ \E a \in Accounts : UpdateStatsAppend(a)
    \/ GetStatsCall

SpecAccounts == InitAccounts /\ [][NextAccounts]_vars

\* C23: the samples of the shared window are stored in the order of their
\* timestamps, whichever collectors appended them and however their calls
\* interleave, and a read reports a start time that is not after its end time
C23_InsertionOrderIsChronological ==
    /\ \A i, j \in 1..Len(stats) : i < j => stats[i].Timestamp <= stats[j].Timestamp
    /\ hourly # Nil => Val(hourly).StartTime <= Val(hourly).EndTime

\* two collectors are inside UpdateStats at once: the one that called later holds
\* the mutex, the one that called first still waits for it, and the window already
\* holds a sample
C23_Witness ==
    \E a, b \in Accounts :
        /\ writer[a].pos = "Lock"
        /\ writer[b].pos = "append"
        /\ writer[a].called < writer[b].called
        /\ Len(stats) > 0

-----------------------------------------------------------------------------
(* The command path: handleTelegramCommand of main.go.  A message is the    *)
(* sequence of the parts it is formatted from; metrics is what              *)
(* getCurrentMetrics() returned, Nil or a pointer to the latest snapshot    *)

\* telegramClient.SendMessage: the failAt-th call of the handler returns an error
SendMessage(sent, text, failAt) ==
    Append(sent, [text |-> text, ok |-> Len(sent) + 1 # failAt])
\* "return telegramClient.SendMessage(...)"
ReturnSend(sent, text, failAt) ==
    [sent |-> SendMessage(sent, text, failAt), err |-> Len(sent) + 1 = failAt,
     panic |-> FALSE]
\* "return nil" and "return err" after the messages sent
ReturnNil(sent) == [sent |-> sent, err |-> FALSE, panic |-> FALSE]
ReturnErr(sent) == [sent |-> sent, err |-> TRUE, panic |-> FALSE]
\* a nil pointer dereference: the goroutine panics
Panic == [sent |-> <<>>, err |-> FALSE, panic |-> TRUE]

\* "No metrics available. \nPlease wait a moment."
NoMetricsResponse == <<"No metrics available.", "Please wait a moment.">>

\* the "/report" branch, which fetches fresh data and does not read the snapshot
Report(in) ==
    IF in.accounts = 0 THEN ReturnSend(<<>>, <<"no account">>, in.failAt)
    ELSE IF ~in.login THEN ReturnSend(<<>>, <<"login failed">>, in.failAt)
    ELSE IF ~in.primary THEN ReturnSend(<<>>, <<"metrics failed">>, in.failAt)
    ELSE ReturnSend(<<>>, <<"report">>, in.failAt)

\* the response of "/cost"
CostResponse(User) ==
    <<"Kuzco">>
    \o (IF User.VastaiCredit # Nil
        THEN <<"Vast.ai", "balance">>
             \o (IF Val(User.VastaiCredit).Credit <= User.VastaiDailyCost
                 THEN <<"warning">> ELSE <<>>)
             \o (IF User.VastaiDailyCost > 0 THEN <<"days left">> ELSE <<>>)
        ELSE <<>>)

\* the response of "/workers" when it has further pages: the first page is sent
\* and its error returned, the further pages are sent and their errors logged,
\* then the emptied response is sent
WorkerPages(in) ==
    LET first == SendMessage(<<>>, <<"workers">>, in.failAt)
        more  == IF in.pages > 1 THEN SendMessage(first, <<"page">>, in.failAt) ELSE first
    IN  IF ~first[1].ok THEN ReturnErr(first)
        ELSE ReturnSend(more, <<>>, in.failAt)

\* "switch command" on the snapshot behind metrics
Switch(command, metrics, in) ==
    CASE command = "/help" -> ReturnSend(<<>>, <<"help">>, in.failAt)
      [] command = "/balance" ->
            IF metrics = Nil THEN Panic
            ELSE IF Val(metrics).User.VastaiCredit # Nil
            THEN ReturnSend(<<>>, <<"Balance">>, in.failAt)
            ELSE ReturnSend(<<>>, <<"Balance information not available">>, in.failAt)
      [] command = "/status" ->
            IF metrics = Nil THEN Panic
            ELSE ReturnSend(<<>>, <<"Vast.Ai", "Actual Instances">>, in.failAt)
      [] command = "/cost" ->
            IF metrics = Nil THEN Panic
            ELSE ReturnSend(<<>>, CostResponse(Val(metrics).User), in.failAt)
      [] command = "/hourly" -> ReturnSend(<<>>, <<"hourly">>, in.failAt)
      [] command = "/workers" ->
            IF metrics = Nil THEN Panic
            ELSE IF in.pages > 0 THEN WorkerPages(in)
            ELSE ReturnSend(<<>>, <<"workers">>, in.failAt)
      [] OTHER -> ReturnNil(<<>>)

CachedNoNilCheck(command, metrics, in) == Switch(command, metrics, in)
\* "다른 명령어는 캐시된 메트릭스 사용": the commands answered from the snapshot
Cached(command, metrics, in) ==
    IF metrics = Nil
    THEN ReturnSend(<<>>, NoMetricsResponse, in.failAt)
    ELSE Switch(command, metrics, in)

handleTelegramCommand(command, metrics, in) ==
    IF command = "/report" THEN Report(in) ELSE Cached(command, metrics, in)

Commands == {"/report", "/help", "/balance", "/status", "/cost", "/hourly", "/workers", "/x"}
\* the snapshots a command finds: none, one without and two with a credit balance
CachedUser(credit, cost) == [User |-> [VastaiCredit |-> credit, VastaiDailyCost |-> cost]]
CachedMetrics ==
    {Nil, Some(CachedUser(Nil, 0)), Some(CachedUser(Some([Credit |-> 2]), 3)),
     Some(CachedUser(Some([Credit |-> 2]), 0))}
\* what the handler meets: the accounts of the configuration, the results of the
\* login and of the fetch of "/report", the paging of "/workers" (0: the response
\* has no page mark, 1: a mark and no further page, 2: a mark and one further
\* page), the call of SendMessage that fails
CommandInputs ==
    [accounts : 0..1, login : BOOLEAN, primary : BOOLEAN, pages : 0..2, failAt : 0..2]

HandleCommand ==
    /\ Calling("handleTelegramCommand")
    /\ Return(handleTelegramCommand(Val(call).args.command, Val(call).args.metrics,
                                    Val(call).args.in))

InitCommands ==
    /\ InitWith({SchedConfig}, {NoMidnight})
    /\ call \in {Called("handleTelegramCommand", [command |-> c, metrics |-> m, in |-> in]) :
                    c \in Commands, m \in CachedMetrics, in \in CommandInputs}

NextCommands == HandleCommand
SpecCommands == InitCommands /\ [][NextCommands]_vars

\* a command other than "/report" has been handled with no snapshot published
HandledWithoutSnapshot ==
    /\ Returned("handleTelegramCommand")
    /\ Val(call).args.command # "/report"
    /\ Val(call).args.metrics = Nil

\* the original statement of C24: with no snapshot published the handler sends
\* the "no metrics available, please wait" reply, reads no snapshot and returns
\* no error
C24_Original ==
    HandledWithoutSnapshot =>
        LET out == Val(Val(call).out)
        IN  /\ Len(out.sent) = 1 /\ out.sent[1].text = NoMetricsResponse
            /\ ~out.panic
            /\ ~out.err

\* C24 (amended): with no snapshot published, a command other than "/report" is
\* answered with the one reply "no metrics available, please wait" and nothing is
\* read through the missing snapshot; the handler returns what sending that reply
\* returned: no error when the reply was accepted, the sink's error otherwise
C24_NotReadyReply ==
    HandledWithoutSnapshot =>
        LET out == Val(Val(call).out)
        IN  /\ Len(out.sent) = 1 /\ out.sent[1].text = NoMetricsResponse
            /\ ~out.panic
            /\ out.err <=> ~out.sent[1].ok
            /\ out.err <=> Val(call).args.in.failAt = 1

\* "/balance" has been answered "please wait" with no snapshot published and a
\* working sink
C24_Witness ==
    /\ HandledWithoutSnapshot
    /\ Val(call).args.command = "/balance"
    /\ Val(call).args.in.failAt = 0
    /\ ~Val(Val(call).out).err

-----------------------------------------------------------------------------
(* Properties of the order of steps                                        *)

\* C25: the first minute tick of CollectMetrics is the one made at startup: it
\* starts from the statement after the timers are set, before the clock has
\* advanced a minute and without a receive from the ticker or the daily timer, and
\* the loop does not reach its select before that tick has been started
C25_FirstTickAtStartup ==
    [][ /\ (ticks = 0 /\ ticks' = 1) =>
               /\ pc = "start"
               /\ pc' = "minute"
               /\ now' < Minute
               /\ minuteTickerC' = minuteTickerC
               /\ dailyTimerC' = dailyTimerC
        /\ pc' # "start" => ticks' >= 1 ]_vars

\* the tick made at startup is running: no time has passed and no timer has fired
C25_Witness ==
    /\ ticks = 1
    /\ pc = "minute"
    /\ now = 0
    /\ minuteTickerC = 0
    /\ dailyTimerC = 0

-----------------------------------------------------------------------------
(* collectMinuteMetrics statement by statement: the provider calls, the     *)
(* copy of the workers, the alert state, the alert checks, the append and   *)
(* the send are steps of the collector, logged in lastTick as they are made *)

StatementsAlertsEarly(c) ==
    <<"GetAllMetrics", "getState", "checkAlerts">>
    \o (IF c.vastaiToken # "" THEN <<"GetInstanceCount">> ELSE <<>>)
    \o (IF c.vastaiToken # "" /\ c.includeVastaiCost THEN <<"GetCredit", "GetDailyCost">>
        ELSE <<>>)
    \o <<"Workers", "setState", "UpdateStats", "ch <- mm">>
\* the calls collectMinuteMetrics makes under configuration c, in the order of its text
Statements(c) ==
    <<"GetAllMetrics">>
    \o (IF c.vastaiToken # "" THEN <<"GetInstanceCount">> ELSE <<>>)
    \o (IF c.vastaiToken # "" /\ c.includeVastaiCost THEN <<"GetCredit">> ELSE <<>>)
    \o (IF c.vastaiToken # "" /\ c.includeVastaiCost THEN <<"GetDailyCost">> ELSE <<>>)
    \o <<"Workers", "getState", "checkAlerts", "setState", "UpdateStats", "ch <- mm">>

\* where statement s stands in the sequence p, 0 when it does not
IndexOf(p, s) == IF \E i \in 1..Len(p) : p[i] = s
                 THEN CHOOSE i \in 1..Len(p) : p[i] = s ELSE 0
\* the statement after s, or the return to the loop of CollectMetrics
After1(c, s) == IF IndexOf(Statements(c), s) < Len(Statements(c))
                THEN Statements(c)[IndexOf(Statements(c), s) + 1] ELSE "select"

\* the variables a statement of the tick leaves alone
stepVars == <<now, cfg, pc, minuteTickerC, dailyTimerC, dailyDue, dailyChan, inflight, hourly,
              lastKind, disagreeSince, dropped, call, stop, proc, held, heap, view, mon,
              writer, alertState, moreVars>>

Logged(tick, s) ==
    lastTick' = Some([kind |-> "steps", tick |-> tick,
                      done |-> IF lastTick # Nil /\ Val(lastTick).tick = tick
                               THEN Append(Val(lastTick).done, s) ELSE <<s>>])

StepsBeginEarly ==
    /\ at["collector"] \in {"start", "select", "ch <- mm"}
    /\ ticks < MaxTicks
    /\ ticks' = ticks + 1
    /\ Goto("collector", "GetAllMetrics")
    /\ Logged(ticks', "begin")
    /\ UNCHANGED <<stepVars, stats, pending, minuteChan, currentMetrics>>
\* the call of collectMinuteMetrics: the initial one, or "case <-minuteTicker.C"
StepsBegin ==
    /\ at["collector"] \in {"start", "select"}
    /\ ticks < MaxTicks
    /\ ticks' = ticks + 1
    /\ Goto("collector", "GetAllMetrics")
    /\ Logged(ticks', "begin")
    /\ UNCHANGED <<stepVars, stats, pending, minuteChan, currentMetrics>>

\* "metrics, err := kuzcoClient.GetAllMetrics(userID)" and, on success, "mm := ..."
StepPrimary(ok, fleet) ==
    /\ at["collector"] = "GetAllMetrics"
    /\ pending' = IF ok THEN Some(Snapshot(ticks, fleet)) ELSE Nil
    /\ Goto("collector", IF ok THEN After1(cfg, "GetAllMetrics") ELSE "select")
    /\ Logged(ticks, IF ok THEN "GetAllMetrics" ELSE "return err")
    /\ UNCHANGED <<stepVars, ticks, stats, minuteChan, currentMetrics>>

\* a provider call of Vast.ai, the copy of the workers, getState, checkAlerts, setState
Step(s) ==
    /\ at["collector"] = s
    /\ Goto("collector", After1(cfg, s))
    /\ Logged(ticks, s)
    /\ UNCHANGED <<stepVars, ticks, stats, pending, minuteChan, currentMetrics>>

\* "GlobalHourlyStats.UpdateStats(mm)"
StepUpdateStats ==
    /\ at["collector"] = "UpdateStats"
    /\ stats' = UpdateStats(stats, Val(pending), now)
    /\ Goto("collector", After1(cfg, "UpdateStats"))
    /\ Logged(ticks, "UpdateStats")
    /\ UNCHANGED <<stepVars, ticks, pending, minuteChan, currentMetrics>>

\* "ch <- mm" and "return nil"
StepSend ==
    /\ at["collector"] = "ch <- mm"
    /\ Len(minuteChan) < ChanCap
    /\ minuteChan' = Append(minuteChan, Val(pending))
    /\ pending' = Nil
    /\ Goto("collector", After1(cfg, "ch <- mm"))
    /\ Logged(ticks, "ch <- mm")
    /\ UNCHANGED <<stepVars, ticks, stats, currentMetrics>>

\* the consumer of main: "case mm := <-minuteChan: updateCurrentMetrics(mm)"
StepsReceive ==
    /\ Len(minuteChan) > 0
    /\ currentMetrics' = Some(Head(minuteChan))
    /\ minuteChan' = Tail(minuteChan)
    /\ UNCHANGED <<stepVars, ticks, stats, pending, at, lastTick>>

InitSteps == InitWith(Configs, {NoMidnight}) /\ call = Nil

NextSteps ==
    \/ StepsBegin
    \/ \E ok \in BOOLEAN, fleet \in FleetCounts : StepPrimary(ok, fleet)
    \/ \E s \in {"GetInstanceCount", "GetCredit", "GetDailyCost", "Workers", "getState",
                 "checkAlerts", "setState"} : Step(s)
    \/ StepUpdateStats
    \/ StepSend
    \/ StepsReceive

SpecSteps == InitSteps /\ [][NextSteps]_vars

\* the provider calls a tick makes after the primary one under configuration c
Secondary(c) ==
    (IF c.vastaiToken # "" THEN {"GetInstanceCount"} ELSE {})
    \cup (IF c.vastaiToken # "" /\ c.includeVastaiCost THEN {"GetCredit", "GetDailyCost"}
          ELSE {})

\* statement a was made, and before statement b, in the log done
Before(done, a, b) == 0 < IndexOf(done, a) /\ IndexOf(done, a) < IndexOf(done, b)
Made(done, s) == IndexOf(done, s) > 0

\* C26: in every minute tick the primary fetch is completed before a secondary
\* fetch is made, the alert checks are made after the primary fetch, every
\* secondary fetch of the configuration and the copy of the workers, the append
\* to the window and the send of the snapshot are made after the alert checks,
\* in that order; and a tick begins only when the tick before it has sent its
\* snapshot or has returned the error of its primary fetch
C26_StepsInOrder ==
    [][ /\ lastTick' # Nil =>
               LET done == Val(lastTick').done
               IN  /\ \A f \in {"GetInstanceCount", "GetCredit", "GetDailyCost"} :
                          Made(done, f) => Before(done, "GetAllMetrics", f)
                   /\ Made(done, "checkAlerts") =>
                          \A s \in {"GetAllMetrics", "Workers"} \cup Secondary(cfg) :
                              Before(done, s, "checkAlerts")
                   /\ Made(done, "UpdateStats") => Before(done, "checkAlerts", "UpdateStats")
                   /\ Made(done, "ch <- mm") => Before(done, "UpdateStats", "ch <- mm")
                   /\ \A i, j \in 1..Len(done) : done[i] = done[j] => i = j
        /\ (lastTick # Nil /\ lastTick' # Nil /\ Val(lastTick').tick # Val(lastTick).tick) =>
               Val(lastTick).done[Len(Val(lastTick).done)] \in {"ch <- mm", "return err"} ]_vars

\* a second tick is sending its snapshot after all three secondary fetches
C26_Witness ==
    /\ lastTick # Nil
    /\ Val(lastTick).tick = 2
    /\ Secondary(cfg) = {"GetInstanceCount", "GetCredit", "GetDailyCost"}
    /\ Val(lastTick).done[Len(Val(lastTick).done)] = "ch <- mm"

\* a minute tick has just returned the error of its primary fetch
MinuteTickFailed(tick) == tick # Nil /\ Val(tick).kind = "minute" /\ Val(tick).err

-----------------------------------------------------------------------------
(* The alert checks on their own: checkInstanceCount and checkAlerts       *)
(* called with a snapshot, a configuration and an alert state drawn from   *)
(* small sets, the window holding what the tick before left in it          *)

\* the snapshots a check is given: the fleet count, the workers, the mismatch flag,
\* the credit balance and the daily cost of the account
CheckedMetrics ==
    { [General    |-> [TotalInstances |-> fleet],
       User       |-> [InstancesMismatch |-> mismatch, VastaiCredit |-> credit,
                       TotalDailyCost |-> 3, Workers |-> <<Worker(old)>>],
       AlertState |-> [VersionMismatchAlerted |-> version, InstanceMismatchStart |-> start,
                       InstanceCountAlerted |-> count, CreditAlerted |-> low]] :
        fleet \in {0, 3}, mismatch \in BOOLEAN, old \in BOOLEAN,
        credit \in {Nil, Some([Credit |-> 2]), Some([Credit |-> 3]), Some([Credit |-> 4])},
        version \in BOOLEAN, start \in {ZeroTime, 0}, count \in BOOLEAN, low \in BOOLEAN }
\* the call of sendAlert of a tick that returns an error (0: none)
CheckFailAts == 0..3
\* the windows a check finds: empty, or with a current sample of fleet count 0 or 3
CheckedWindows == {<<>>} \cup {<<NewStat(Sample(4, fleet, 6, 1), 0)>> : fleet \in {0, 3}}
CheckTimes == {1, 6}

\* the calls a tick can make: the instance-count latch is set only once its grace
\* timer has run for 5 minutes, and a timer or a latch was set by an earlier tick,
\* whose sample is in the window
CheckArgs ==
    {a \in [mm : CheckedMetrics,
            config : {c \in Configs : c.vastaiToken # "" /\ c.includeVastaiCost},
            stats : CheckedWindows, failAt : CheckFailAts, t : CheckTimes] :
        /\ a.mm.AlertState.InstanceCountAlerted =>
               /\ a.mm.AlertState.InstanceMismatchStart # ZeroTime
               /\ GraceElapsed(a.mm.AlertState.InstanceMismatchStart, a.t)
        /\ a.mm.AlertState # ZeroAlertState => a.stats # <<>>}

\* the alert state and the messages a check starts from
CheckStart(mm) == [AlertState |-> mm.AlertState, sent |-> <<>>, err |-> FALSE]

CheckInstanceCount ==
    /\ Calling("checkInstanceCount")
    /\ LET a == Val(call).args
       IN  Return(checkInstanceCount(a.mm, a.config, CheckStart(a.mm), a.failAt, a.t))

CheckAlerts ==
    /\ Calling("checkAlerts")
    /\ LET a == Val(call).args
       IN  Return(checkAlerts(a.mm, a.config, a.failAt, a.t))

InitChecks ==
    /\ InitWith({SchedConfig}, {NoMidnight})
    /\ call \in {Called(fn, a) : fn \in {"checkInstanceCount", "checkAlerts"}, a \in CheckArgs}

NextChecks == CheckInstanceCount \/ CheckAlerts
SpecChecks == InitChecks /\ [][NextChecks]_vars

\* C28: a tick whose window shows a fleet-wide running-instance count of zero in
\* its current sample does not evaluate the instance-count latch: the grace
\* timer, the latch and the alert state are as before and nothing is sent
C28_NoEvaluationOnEmptyFleet ==
    (/\ Returned("checkInstanceCount")
     /\ GetStats(Val(call).args.stats, Val(call).args.t).TotalInstances.Current = 0) =>
        /\ Val(Val(call).out).AlertState = Val(call).args.mm.AlertState
        /\ Val(Val(call).out).sent = <<>>

\* the alert checks of a tick have been made
AlertsChecked == Returned("checkAlerts")
\* the credit balance of the snapshot is at most its total daily cost
CreditLow(mm) == Val(mm.User.VastaiCredit).Credit <= mm.User.TotalDailyCost

\* C29: on a tick with alerts enabled that obtained a credit balance, the
\* low-credit latch is evaluated with the condition "balance <= total daily
\* cost" and no grace period: with the latch clear and the condition true
\* (equality included) the tick hands the 'problem' notification to the sink, with
\* the latch set and the balance strictly greater it hands the 'resolved'
\* notification; on a tick without a credit balance nothing is sent for the latch
\* and it is unchanged
C29_CreditLatchFiresAtOnce ==
    (AlertsChecked /\ Val(call).args.config.Enabled) =>
        LET a   == Val(call).args
            out == Val(Val(call).out)
            was == a.mm.AlertState.CreditAlerted
        IN  IF a.mm.User.VastaiCredit = Nil
            THEN ~HandedAny(out.sent, "credit") /\ out.AlertState.CreditAlerted = was
            ELSE /\ (CreditLow(a.mm) /\ ~was) => Handed(out.sent, "credit", "problem") # {}
                 /\ (~CreditLow(a.mm) /\ was) => Handed(out.sent, "credit", "resolved") # {}

-----------------------------------------------------------------------------
(* Properties of a daily tick                                              *)

\* one CollectMetrics call with alerts enabled, under every provider
\* configuration, the first midnight falling at minute 2; time passes while the
\* loop waits in its select
DailyConfigs == {c \in Configs : c.Enabled}
InitDaily == InitWith(DailyConfigs, {2}) /\ call = Nil
\* the minute ticks of that call: the sink accepts their messages, the primary
\* fetch fails or returns the list with an outdated worker, the instance listing
\* of the secondary provider fails
DailyTickInputs(c) == {in \in TickInputs(c) :
                          /\ in.failAt = 0
                          /\ ~in.instances.ok
                          /\ in.primary.ok => Len(in.primary.val.Workers) = 2}
NextDaily ==
    \/ IdleTimePasses(1)
    \/ InitialMinute
    \/ BeginMinute
    \/ \E in \in DailyTickInputs(cfg) : RunMinute(in)
    \/ SendMinute
    \/ ReceiveMinute
    \/ BeginDaily
    \/ \E in \in DailyInputs(cfg) : RunDaily(in)
    \/ SendDaily
    \/ ReceiveDaily
SpecDaily == InitDaily /\ [][NextDaily]_vars

\* a step of the collector that belongs to a daily tick: its start, its body, or
\* its send into dailyChan
DailyStep == pc' # pc /\ (pc \in {"daily", "sendDaily"} \/ pc' = "daily")
\* the step that ran the body of collectDailyMetrics
DailyRan == pc = "daily" /\ pc' # "daily"

\* C30: a daily tick whose primary fetch succeeds hands exactly one message to the
\* sink, of channel class 'daily', and puts exactly one DailyMetrics record into
\* dailyChan; a daily tick whose primary fetch fails hands nothing to the sink and
\* puts nothing into dailyChan; no step of a daily tick changes the latest
\* snapshot, the rolling window or the alert latches, and no other step of the
\* collector adds to dailyChan.
C30_DailyTickEffect ==
    [][/\ DailyRan =>
            LET tick == Val(lastTick')
            IN  /\ lastTick' # Nil /\ tick.kind = "daily"
                /\ IF tick.primaryOk
                   THEN /\ Len(tick.sent) = 1
                        /\ tick.sent[1].latch = "daily" /\ tick.sent[1].kind = "daily"
                        /\ pc' = "sendDaily" /\ pending' # Nil
                        /\ dailyChan' = dailyChan
                   ELSE /\ tick.sent = <<>>
                        /\ tick.err
                        /\ pc' = "select" /\ pending' = Nil
                        /\ dailyChan' = dailyChan
       /\ (pc = "sendDaily" /\ pc' # pc) =>
            /\ dailyChan' = Append(dailyChan, Val(pending))
            /\ pc' = "select" /\ pending' = Nil
       /\ Len(dailyChan') > Len(dailyChan) => pc = "sendDaily"
       /\ DailyStep =>
            /\ currentMetrics' = currentMetrics
            /\ stats' = stats
            /\ alertState' = alertState
            /\ minuteChan' = minuteChan]_vars

\* a daily tick with a successful primary fetch has handed its one message to the
\* sink and is about to emit its record, a latch being set, the window holding a
\* sample and the consumer holding a snapshot
C30_Witness ==
    /\ pc = "sendDaily"
    /\ lastTick # Nil /\ Val(lastTick).kind = "daily" /\ Val(lastTick).primaryOk
    /\ Len(Val(lastTick).sent) = 1
    /\ pending # Nil
    /\ alertState # ZeroAlertState
    /\ stats # <<>>
    /\ currentMetrics # Nil

-----------------------------------------------------------------------------
(* The derived fields of GetAllMetrics and GetWorkers                      *)

\* the largest token count a fetch returns
MaxTokens == 3

\* float64(n)
FromInt(n) == Quot(n, 1)
\* a / b and a * n on float64 values
FloatDiv(a, b) == Quot(a.num * b.den, a.den * b.num)
FloatTimes(a, n) == Quot(a.num * n, a.den)
\* a > 0 on a float64 value
Positive(a) == a.num * a.den > 0
\* a and b are the same number
SameFloat(a, b) == a.den # 0 /\ b.den # 0 /\ a.num * b.den = b.num * a.den

\* "if len(w.Instances) > 0 { worker.TokensPerInstance = int64(tokens24h) /
\* int64(len(w.Instances)) }", the field being zero otherwise
WorkerTokensPerInstance(tokens24h, n) == IF n > 0 THEN TruncDiv(tokens24h, n) ELSE 0

ShareOfNonZero(user, general) ==
    IF general # 0 THEN FloatDiv(FromInt(user), FromInt(general)) ELSE ZeroFloat
\* "if metrics.General.TokensLast24Hours > 0 { metrics.User.Share = ... }"
ShareOf(user, general) ==
    IF general > 0 THEN FloatDiv(FromInt(user), FromInt(general)) ELSE ZeroFloat

\* the end of GetAllMetrics: the totals over the workers and the derived fields of
\* a Metrics value whose fields start as zero
DerivedFields(user, general, workers) ==
    LET TotalInstances == SumOver(workers, "InstanceCount", 1)
        TotalDailyCost == SumOver(workers, "DailyCost", 1)
        Share          == ShareOf(user, general)
    IN  [TotalInstances    |-> TotalInstances,
         TotalDailyCost    |-> TotalDailyCost,
         TokensPerInstance |-> IF TotalInstances > 0 THEN TruncDiv(user, TotalInstances) ELSE 0,
         Share             |-> Share,
         Efficiency        |-> IF general > 0 /\ Positive(Share)
                               THEN FloatDiv(FromInt(TotalDailyCost), FloatTimes(Share, 100))
                               ELSE ZeroFloat,
         Workers           |-> [i \in 1..Len(workers) |->
                                   WorkerTokensPerInstance(workers[i].TokensLast24H,
                                                           workers[i].InstanceCount)]]

\* the workers GetWorkers returns: their instance counts, 24h tokens and costs
TokenWorkers ==
    SeqsUpTo([InstanceCount : 0..MaxInstances, TokensLast24H : {0, MaxTokens + 2},
              DailyCost : {2}], MaxWorkers)

Derive ==
    /\ Calling("DerivedFields")
    /\ Return(DerivedFields(Val(call).args.user, Val(call).args.general,
                            Val(call).args.workers))

InitDerived ==
    /\ InitWith({SchedConfig}, {NoMidnight})
    /\ call \in {Called("DerivedFields", [user |-> u, general |-> g, workers |-> ws]) :
                     u \in -1..MaxTokens, g \in -1..MaxTokens, ws \in TokenWorkers}
NextDerived == Derive
SpecDerived == InitDerived /\ [][NextDerived]_vars

\* q is the integer quotient of a by a positive n: what is left of a has the sign
\* of a and is smaller than n
IsQuotient(q, a, n) ==
    LET r == a - q * n
    IN  /\ 0 - n < r /\ r < n
        /\ (a >= 0 => r >= 0) /\ (a <= 0 => r <= 0)

\* C31: the derived fields never divide by zero: tokens-per-instance is the integer
\* quotient of the 24h tokens by the instance count when the count is positive
\* and 0 otherwise, for the user total and for each worker; share is user tokens /
\* general tokens when the general tokens are positive and 0 otherwise;
\* efficiency is total daily cost / (share x 100) when share is positive and 0
\* otherwise.
C31_DerivedFieldsGuarded ==
    Returned("DerivedFields") =>
        LET a   == Val(call).args
            out == Val(Val(call).out)
            n   == out.TotalInstances
        IN  /\ out.Share.den # 0 /\ out.Efficiency.den # 0
            /\ IF n > 0
               THEN IsQuotient(out.TokensPerInstance, a.user, n)
               ELSE out.TokensPerInstance = 0
            /\ \A i \in 1..Len(a.workers) :
                 LET w == a.workers[i]
                 IN  IF w.InstanceCount > 0
                     THEN IsQuotient(out.Workers[i], w.TokensLast24H, w.InstanceCount)
                     ELSE out.Workers[i] = 0
            /\ IF a.general > 0
               THEN SameFloat(out.Share, Quot(a.user, a.general))
               ELSE out.Share = ZeroFloat
            /\ IF Positive(out.Share)
               THEN out.Efficiency.num * out.Share.num * 100
                        = out.TotalDailyCost * out.Share.den * out.Efficiency.den
               ELSE out.Efficiency = ZeroFloat

\* the derived fields of a user with tokens, two workers of which one has no
\* instance, and a positive share
C31_Witness ==
    /\ Returned("DerivedFields")
    /\ Val(call).args.general > 0 /\ Val(call).args.user > 0
    /\ Len(Val(call).args.workers) = 2
    /\ Val(call).args.workers[1].InstanceCount = 0
    /\ Val(call).args.workers[2].InstanceCount > 1
    /\ Val(Val(call).out).Workers[2] > 0
    /\ Positive(Val(Val(call).out).Efficiency)

-----------------------------------------------------------------------------
(* The health monitor of one account: startInstanceMonitoring              *)

\* the period of the ticker of startInstanceMonitoring: 5 * time.Minute
MonitoringTicker == 5
\* monitoringInterval of StartContinuousMonitoring: 1 * time.Minute
MonitoringInterval == 1

\* what a step of the health monitor leaves alone
monitoringVars == <<cfg, pc, minuteTickerC, dailyTimerC, dailyDue, alertState, stats, pending,
                    minuteChan, dailyChan, currentMetrics, inflight, hourly, lastTick, lastKind,
                    disagreeSince, dropped, ticks, call, stop, proc, held, at, heap, view, mon,
                    writer, latching, session>>

\* "ticker := time.NewTicker(5 * time.Minute)", up to the first iteration of the loop
MonitoringStart ==
    /\ monitors.pos = "start"
    /\ monitors' = [monitors EXCEPT !.pos = "MonitorAndRebootInstances",
                                    !.due = now + MonitoringTicker]
    /\ UNCHANGED <<now, monitoringVars>>

\* vastaiClient.MonitorAndRebootInstances(sendAlert), which is
\* StartContinuousMonitoring(sendAlert, false, nil): stopOnFirstExecution being
\* false, it starts a goroutine that loops over checkAndReboot and returns nil;
\* startInstanceMonitoring then waits in "<-ticker.C"
MonitorAndRebootInstances ==
    /\ monitors.pos = "MonitorAndRebootInstances"
    /\ monitors' = [monitors EXCEPT
                       !.pos = "<-ticker.C",
                       !.loops = Append(@, [pos |-> "checkAndReboot", i |-> 0, n |-> 0, wake |-> now])]
    /\ UNCHANGED <<now, monitoringVars>>

\* "<-ticker.C": the next iteration of the loop of startInstanceMonitoring
MonitoringTick ==
    /\ monitors.pos = "<-ticker.C"
    /\ monitors.tickerC > 0
    /\ monitors' = [monitors EXCEPT !.pos = "MonitorAndRebootInstances", !.tickerC = @ - 1]
    /\ UNCHANGED <<now, monitoringVars>>

\* a minute passes: the ticker fires into its channel of capacity 1 when due
MonitoringTimePasses ==
    /\ monitors.pos # "start"
    /\ now + Minute <= MaxTime
    /\ now' = now + Minute
    /\ monitors' = IF now' >= monitors.due
                   THEN [monitors EXCEPT !.due = @ + MonitoringTicker, !.tickerC = ChanCap]
                   ELSE monitors
    /\ UNCHANGED monitoringVars

\* the start of checkAndReboot in the k-th goroutine: the pre-check reads a fleet
\* of 0 or GetInstances fails or returns no instance (n = 0), and the cycle ends;
\* or the loop over the n instances returned starts
CheckAndReboot(k, n) ==
    /\ monitors.loops[k].pos = "checkAndReboot"
    /\ monitors' = [monitors EXCEPT !.loops[k] =
                       IF n = 0
                       THEN [pos |-> "Sleep", i |-> 0, n |-> 0, wake |-> now + MonitoringInterval]
                       ELSE [pos |-> "instance", i |-> 1, n |-> n, wake |-> now]]
    /\ UNCHANGED <<now, monitoringVars>>

\* the body of "for _, instance := range instances" for the instance in hand: the
\* log request, the scan and, on a sustained timeout, the reboot; after the last
\* instance the goroutine sleeps for monitoringInterval
CheckInstance(k) ==
    /\ monitors.loops[k].pos = "instance"
    /\ monitors' = [monitors EXCEPT !.loops[k] =
                       IF @.i < @.n
                       THEN [@ EXCEPT !.i = @ + 1]
                       ELSE [pos |-> "Sleep", i |-> 0, n |-> 0, wake |-> now + MonitoringInterval]]
    /\ UNCHANGED <<now, monitoringVars>>

\* time.Sleep(monitoringInterval) returns
MonitoringWake(k) ==
    /\ monitors.loops[k].pos = "Sleep"
    /\ now >= monitors.loops[k].wake
    /\ monitors' = [monitors EXCEPT !.loops[k] = [pos |-> "checkAndReboot", i |-> 0, n |-> 0, wake |-> now]]
    /\ UNCHANGED <<now, monitoringVars>>

InitMonitoring == InitWith({SchedConfig}, {NoMidnight}) /\ call = Nil
NextMonitoring ==
    \/ MonitoringStart
    \/ MonitorAndRebootInstances
    \/ MonitoringTick
    \/ MonitoringTimePasses
    \/ \E k \in 1..Len(monitors.loops), n \in 0..MaxMonitored : CheckAndReboot(k, n)
    \/ \E k \in 1..Len(monitors.loops) : CheckInstance(k)
    \/ \E k \in 1..Len(monitors.loops) : MonitoringWake(k)
SpecMonitoring == InitMonitoring /\ [][NextMonitoring]_vars

\* the goroutines that are inside a cycle of checkAndReboot
InCycle == {k \in 1..Len(monitors.loops) : monitors.loops[k].pos # "Sleep"}

\* C32: the health monitor of an account is a single loop: at any time at most one
\* cycle is executing and at most one monitoring loop is alive, however many
\* 5-minute intervals have elapsed, so that no instance is in the hands of two
\* cycles at once.
C32_SingleMonitoringLoop ==
    /\ Len(monitors.loops) <= 1
    /\ Cardinality(InCycle) <= 1
    /\ \A j, k \in 1..Len(monitors.loops) :
          (/\ j # k
           /\ monitors.loops[j].pos = "instance"
           /\ monitors.loops[k].pos = "instance") => monitors.loops[j].i # monitors.loops[k].i

-----------------------------------------------------------------------------
(* Properties of one cycle of the health monitor                           *)

\* the notifications of the cycle that are about instance i
AlertsAbout(i) == {j \in 1..Len(mon.alerts) : mon.alerts[j].i = i}
\* the reboots of the cycle issued for instance i
RebootsOf(i) == {j \in 1..Len(mon.reboots) : mon.reboots[j] = i}
\* the cycle is through with instance i
Through(i) == i < mon.i

\* C33: in one cycle of the health monitor a reboot is issued for an instance at
\* most once and only if the scan of its log in that cycle reported a sustained
\* timeout; an instance with a sustained timeout gets exactly one notification in
\* the cycle, which is reboot success, reboot failure or skipped for an empty
\* fleet, as the case was; an instance without gets none.
C33_OneRebootOneNotification ==
    \A i \in 1..Len(mon.instances) :
        /\ Cardinality(RebootsOf(i)) <= 1
        /\ RebootsOf(i) # {} => i \in mon.timedOut
        /\ i \notin mon.timedOut => AlertsAbout(i) = {}
        /\ Cardinality(AlertsAbout(i)) <= 1
        /\ (i \in mon.timedOut /\ Through(i)) => Cardinality(AlertsAbout(i)) = 1
        /\ \A j \in AlertsAbout(i) :
             /\ mon.alerts[j].what \in {"success", "failed", "skipped"}
             /\ mon.alerts[j].what = "success" => (i \in mon.rebooted /\ RebootsOf(i) # {})
             /\ mon.alerts[j].what = "failed" =>
                    (i \in mon.failed /\ i \notin mon.rebooted /\ RebootsOf(i) # {})
             /\ mon.alerts[j].what = "skipped" => (i \in mon.skipped /\ RebootsOf(i) = {})

\* a cycle over two instances has ended: the scan of the first reported no timeout,
\* the second had a sustained timeout, was rebooted and got its notification
C33_Witness ==
    /\ at["monitor"] = "idle"
    /\ Len(mon.instances) = 2
    /\ mon.timedOut = {2}
    /\ mon.reboots = <<2>>
    /\ mon.alerts = << [i |-> 2, what |-> "success"] >>

-----------------------------------------------------------------------------
(* The worker-status monitor: Monitor.checkWorkerChanges                   *)

\* most workers a fetch returns
MaxFetched == 2

\* the WorkerStatus built for a fetched worker; of an InstanceStatus the fields the
\* check compares are kept, Status and IPAddress
StatusOf(worker) ==
    [InstanceCount |-> Len(worker.Instances),
     Instances     |-> [id \in {worker.Instances[j].ID : j \in 1..Len(worker.Instances)} |->
                           LET j == CHOOSE j \in 1..Len(worker.Instances) :
                                        worker.Instances[j].ID = id
                           IN  [Status    |-> worker.Instances[j].Status,
                                IPAddress |-> worker.Instances[j].IPAddress]]]

\* m.state.Workers[id] = status
Track(workers, id, status) ==
    [w \in DOMAIN workers \cup {id} |-> IF w = id THEN status ELSE workers[w]]

\* the changes found for a worker that is tracked already
ChangesOf(id, prev, cur) ==
    (IF cur.InstanceCount # prev.InstanceCount
     THEN {[what |-> "Instance Count Changed", worker |-> id, instance |-> ""]} ELSE {})
    \cup {[what |-> "Instance Status Changed", worker |-> id, instance |-> i] :
             i \in {i \in DOMAIN cur.Instances \cap DOMAIN prev.Instances :
                       cur.Instances[i].Status # prev.Instances[i].Status}}
    \cup {[what |-> "Instance IP Changed", worker |-> id, instance |-> i] :
             i \in {i \in DOMAIN cur.Instances \cap DOMAIN prev.Instances :
                       cur.Instances[i].IPAddress # prev.Instances[i].IPAddress}}
    \cup {[what |-> "New Instance Added", worker |-> id, instance |-> i] :
             i \in DOMAIN cur.Instances \ DOMAIN prev.Instances}
    \cup {[what |-> "Instance Removed", worker |-> id, instance |-> i] :
             i \in DOMAIN prev.Instances \ DOMAIN cur.Instances}

\* "for _, instance := range worker.Instances" of a new worker: the line of each
\* instance reads instance.Info.NvidiaSmi.GPU[0], which panics on the first
\* instance whose NvidiaSmi is nil or has no GPU
NewWorkerPanics(worker) == \E j \in 1..Len(worker.Instances) : ~worker.Instances[j].HasGPU

\* the loop over the fetched workers from the k-th on, then the loop over the
\* tracked workers that removes those not fetched
RECURSIVE WorkerLoop(_, _, _, _)
WorkerLoop(fetched, k, workers, changes) ==
    IF k > Len(fetched)
    THEN LET current == {fetched[j].ID : j \in 1..Len(fetched)}
             gone    == DOMAIN workers \ current
         IN  [panic   |-> FALSE,
              Workers |-> [w \in DOMAIN workers \cap current |-> workers[w]],
              changes |-> changes \cup {[what |-> "Worker Removed", worker |-> w,
                                         instance |-> ""] : w \in gone}]
    ELSE LET worker == fetched[k]
             cur    == StatusOf(worker)
         IN  IF worker.ID \notin DOMAIN workers
             THEN IF NewWorkerPanics(worker)
                  THEN [panic |-> TRUE, Workers |-> workers, changes |-> changes]
                  ELSE WorkerLoop(fetched, k + 1, Track(workers, worker.ID, cur),
                                  changes \cup {[what |-> "New Worker Detected",
                                                 worker |-> worker.ID, instance |-> ""]})
             ELSE WorkerLoop(fetched, k + 1, Track(workers, worker.ID, cur),
                             changes \cup ChangesOf(worker.ID, workers[worker.ID], cur))

\* checkWorkerChanges on the tracked workers and the result of getActiveWorkers;
\* sendOk is whether the chat accepts the message
checkWorkerChanges(workers, fetch, sendOk) ==
    IF ~fetch.ok
    THEN [panic |-> FALSE, err |-> TRUE, Workers |-> workers, sent |-> FALSE]
    ELSE LET res == WorkerLoop(fetch.val, 1, workers, {})
         IN  IF res.panic
             THEN [panic |-> TRUE, err |-> FALSE, Workers |-> res.Workers, sent |-> FALSE]
             ELSE [panic |-> FALSE, err |-> res.changes # {} /\ ~sendOk,
                   Workers |-> res.Workers, sent |-> res.changes # {}]

\* the instances a worker reports: running or not, at one of two addresses, with
\* or without the nvidia-smi block
FetchedInstances(id) ==
    { [ID |-> id, Status |-> "Running", IPAddress |-> 1, HasGPU |-> TRUE],
      [ID |-> id, Status |-> "Running", IPAddress |-> 2, HasGPU |-> TRUE],
      [ID |-> id, Status |-> "Stopped", IPAddress |-> 1, HasGPU |-> TRUE],
      [ID |-> id, Status |-> "Running", IPAddress |-> 1, HasGPU |-> FALSE] }
\* the active workers of getActiveWorkers: not archived, with an instance that is
\* running
ActiveWorkers(id) ==
    { [ID |-> id, Instances |-> insts] :
        insts \in {q \in { <<a>> : a \in FetchedInstances("i1") }
                         \cup { <<a, b>> : a \in FetchedInstances("i1"),
                                           b \in FetchedInstances("i2") } :
                      \E j \in 1..Len(q) : q[j].Status = "Running"} }
WorkerIds == <<"w1", "w2", "w3">>
RECURSIVE FetchedLists(_)
FetchedLists(n) ==
    IF n = 0 THEN {<<>>}
    ELSE LET shorter == FetchedLists(n - 1)
         IN  shorter \cup {Append(q, w) : q \in {q \in shorter : Len(q) = n - 1},
                                          w \in ActiveWorkers(WorkerIds[n])}
\* the fetches the model draws: the second worker, when there is one, has one
\* instance
Fetches ==
    {Err} \cup {Ok(q) : q \in {q \in FetchedLists(MaxFetched) :
                                  \A j \in 2..Len(q) : Len(q[j].Instances) = 1}}
\* the tracked workers left by initializeState or by an earlier check that returned
TrackedAfter(fetch) ==
    [w \in {fetch.val[j].ID : j \in 1..Len(fetch.val)} |->
        StatusOf(fetch.val[CHOOSE j \in 1..Len(fetch.val) : fetch.val[j].ID = w])]

CheckWorkerChanges ==
    /\ Calling("checkWorkerChanges")
    /\ LET a == Val(call).args
       IN  Return(checkWorkerChanges(a.Workers, a.fetch, a.sendOk))

InitWorkers ==
    /\ InitWith({SchedConfig}, {NoMidnight})
    /\ call \in {Called("checkWorkerChanges",
                        [Workers |-> TrackedAfter(f0), fetch |-> f, sendOk |-> ok]) :
                     f0 \in Fetches \ {Err}, f \in Fetches, ok \in BOOLEAN}
NextWorkers == CheckWorkerChanges
SpecWorkers == InitWorkers /\ [][NextWorkers]_vars

\* C34: after a checkWorkerChanges call whose fetch succeeded the tracked workers
\* are exactly the workers of the fetch, with their instances as fetched, and the
\* 'Worker Status Changes' message was sent if and only if they differ from the
\* workers tracked before; after a call whose fetch failed the tracked workers are
\* as before.
C34_TrackedIsFetched ==
    Returned("checkWorkerChanges") =>
        LET a   == Val(call).args
            out == Val(Val(call).out)
        IN  IF a.fetch.ok
            THEN /\ out.Workers = TrackedAfter(a.fetch)
                 /\ out.sent <=> (TrackedAfter(a.fetch) # a.Workers)
            ELSE out.Workers = a.Workers /\ ~out.sent

-----------------------------------------------------------------------------
(* The alert latches under several accounts: globalAlertState              *)

\* what a step of an account's tick between getState and setState leaves alone
latchingVars == <<now, cfg, pc, minuteTickerC, dailyTimerC, dailyDue, stats, pending,
                  minuteChan, dailyChan, currentMetrics, inflight, hourly, lastTick, lastKind,
                  disagreeSince, dropped, call, stop, proc, held, at, heap, view, mon, writer,
                  monitors, session>>

\* the snapshot of a tick whose workers run an outdated version (old) or not, with
\* no credit obtained, holding the alert state just read
LatchedMetrics(old, as) ==
    [General    |-> [TotalInstances |-> 3],
     User       |-> [InstancesMismatch |-> FALSE, VastaiCredit |-> Nil, TotalDailyCost |-> 3,
                     Workers |-> <<Worker(old)>>],
     AlertState |-> as]

\* "mm.AlertState = globalAlertState.getState()" of account a's tick, the snapshot
\* having been built
LatchGetState(a, old) ==
    /\ latching.tick[a].pos = "idle"
    /\ ticks < MaxTicks
    /\ ticks' = ticks + 1
    /\ latching' = [latching EXCEPT !.tick[a] = [pos  |-> "checkAlerts",
                                                 mm   |-> Some(LatchedMetrics(old, alertState)),
                                                 read |-> Some(alertState)]]
    /\ UNCHANGED <<alertState, latchingVars>>

\* "m.checkAlerts(&mm, alertConfig, sendAlert)": the checks write to the tick's
\* own mm.AlertState
LatchCheckAlerts(a, failAt) ==
    /\ latching.tick[a].pos = "checkAlerts"
    /\ LET mm  == Val(latching.tick[a].mm)
           res == checkAlerts(mm, cfg, failAt, now)
       IN  latching' = [latching EXCEPT
                           !.tick[a].pos = "setState",
                           !.tick[a].mm = Some([mm EXCEPT !.AlertState = res.AlertState]),
                           !.raised = IF Handed(res.sent, "version", "problem") # {} THEN a
                                      ELSE IF Handed(res.sent, "version", "resolved") # {} THEN ""
                                      ELSE @]
    /\ UNCHANGED <<alertState, ticks, latchingVars>>

\* "globalAlertState.setState(mm.AlertState)"
LatchSetState(a) ==
    /\ latching.tick[a].pos = "setState"
    /\ alertState' = Val(latching.tick[a].mm).AlertState
    /\ latching' = [latching EXCEPT !.tick[a] = [pos |-> "idle", mm |-> Nil, read |-> Nil]]
    /\ UNCHANGED <<ticks, latchingVars>>

LatchConfig == [vastaiToken |-> "", includeVastaiCost |-> FALSE, Enabled |-> TRUE]
InitLatches == InitWith({LatchConfig}, {NoMidnight}) /\ call = Nil
NextLatches ==
    \/ \E a \in Accounts, old \in BOOLEAN : LatchGetState(a, old)
    \/ \E a \in Accounts, failAt \in FailAts : LatchCheckAlerts(a, failAt)
    \/ \E a \in Accounts : LatchSetState(a)
SpecLatches == InitLatches /\ [][NextLatches]_vars

\* C35: with several accounts collecting at once each account's latches behave as
\* with one account: between the getState and the setState of an account's tick
\* no other tick writes the alert state, so that no latch change is lost or
\* overwritten, and no tick sends a 'resolved' for a problem that the tick of
\* another account raised.
C35_LatchesPerAccount ==
    [][\A a \in Accounts :
         /\ (latching.tick[a].pos = "setState" /\ latching'.tick[a].pos = "idle")
               => alertState = Val(latching.tick[a].read)
         /\ (/\ latching.tick[a].pos = "checkAlerts"
             /\ latching'.tick[a].pos = "setState"
             /\ latching.raised # ""
             /\ latching'.raised = "")
               => latching.raised = a]_vars

-----------------------------------------------------------------------------
(* The session token of the primary provider: Client.SetToken              *)

\* cfg.Accounts in the order of the configuration
AccountList == [i \in 1..MaxAccounts |-> <<"first", "second", "third">>[i]]
\* the token a successful login of account a returns
TokenOf(a) == "token of " \o a

\* what a step of main's loop over the accounts or a request leaves alone
sessionVars == <<now, cfg, pc, minuteTickerC, dailyTimerC, dailyDue, alertState, stats, pending,
                 minuteChan, dailyChan, currentMetrics, inflight, hourly, lastTick, lastKind,
                 disagreeSince, dropped, ticks, call, stop, proc, held, at, heap, view, mon,
                 writer, monitors, latching>>

\* "c.token = token"
SetToken(token) == token

\* one iteration of "for _, account := range cfg.Accounts": client.Login; on an
\* error "continue"; otherwise client.SetToken(token) and "go
\* client.CollectMetrics(...)" on the same client
MainAccount(ok) ==
    /\ session.next <= MaxAccounts
    /\ LET a == AccountList[session.next]
       IN  session' = IF ok
                      THEN [session EXCEPT !.next = @ + 1,
                                           !.issued[a] = TokenOf(a),
                                           !.token = SetToken(TokenOf(a))]
                      ELSE [session EXCEPT !.next = @ + 1]
    /\ UNCHANGED sessionVars

\* the token a request of account a's collector carries: "Bearer "+c.token
Authorization(a) == session.token

\* the endpoints a tick of a collector asks: the metrics queries and worker.list
Paths == {"metrics", "worker.list"}

\* a request of the collector of account a, which main has started: DoRequest sets
\* the Authorization header from the client's token
DoRequest(a, path) ==
    /\ session.issued[a] # ""
    /\ Len(session.requests) < MaxTicks
    /\ session' = [session EXCEPT
                      !.requests = Append(@, [account |-> a, path |-> path,
                                              token |-> Authorization(a)])]
    /\ UNCHANGED sessionVars

InitSession == InitWith({SchedConfig}, {NoMidnight}) /\ call = Nil
NextSession ==
    \/ \E ok \in BOOLEAN : MainAccount(ok)
    \/ \E a \in Accounts, path \in Paths : DoRequest(a, path)
SpecSession == InitSession /\ [][NextSession]_vars

\* C36: every request of an account's collector carries the session token that
\* account's own login issued, whatever accounts logged in later.
C36_OwnSessionToken ==
    \A i \in 1..Len(session.requests) :
        session.requests[i].token = session.issued[session.requests[i].account]

-----------------------------------------------------------------------------
(* Properties of the alert configuration                                   *)

\* C37: with Enabled false in the alert configuration no minute tick hands an alert
\* notification to the sink (version mismatch, instance-count mismatch or low
\* credit) and no tick changes an alert latch.
C37_DisabledAlertsSilent ==
    [][(~cfg.Enabled /\ lastTick' # Nil /\ Val(lastTick').kind = "minute") =>
          /\ \A l \in Latches : ~HandedAny(Val(lastTick').sent, l)
          /\ alertState' = alertState]_vars

\* C38: an 'Instance Count Mismatch Resolved' notification is handed to the sink
\* only on a tick that fetched the secondary provider's instance count and found
\* it equal to the primary provider's; a tick whose instance-count fetch failed
\* neither clears the instance-count latch nor resets the grace timer.
C38_ResolvedOnlyOnFetchedCount ==
    [][(lastTick' # Nil /\ Val(lastTick').kind = "minute") =>
          LET tick == Val(lastTick')
          IN  /\ Handed(tick.sent, "instance", "resolved") # {} =>
                    /\ cfg.vastaiToken # ""
                    /\ "instances" \notin tick.failed
                    /\ pending' # Nil
                    /\ Val(pending').User.TotalInstances
                          = Val(pending').User.ActualTotalInstances
              /\ "instances" \in tick.failed =>
                    /\ alertState'.InstanceCountAlerted = alertState.InstanceCountAlerted
                    /\ alertState'.InstanceMismatchStart = alertState.InstanceMismatchStart]_vars

-----------------------------------------------------------------------------
(* Properties of the total daily cost of a snapshot                        *)

\* the balances the secondary provider may report, an exhausted one included
SnapshotCredits == CreditResults \cup {Ok(0)}
SnapshotAlertStates ==
    {ZeroAlertState, [ZeroAlertState EXCEPT !.CreditAlerted = TRUE]}

\* the fetches of one tick under configuration c, with a working sink
SnapshotInputs(c) ==
    [primary   : PrimaryResponses,
     instances : IF c.vastaiToken # "" THEN {Err, Ok(1)} ELSE {Err},
     credit    : IF c.vastaiToken # "" /\ c.includeVastaiCost THEN SnapshotCredits ELSE {Err},
     cost      : IF c.vastaiToken # "" /\ c.includeVastaiCost THEN CostResults ELSE {Err},
     failAt    : {0}]

CollectMinute ==
    /\ Calling("collectMinuteMetrics")
    /\ Return(collectMinuteMetrics(Val(call).args.in, Val(call).args.config,
                                   Val(call).args.as, <<>>, now))

InitSnapshot ==
    /\ InitWith(Configs, {NoMidnight})
    /\ call \in {Called("collectMinuteMetrics", [in |-> in, config |-> c, as |-> as]) :
                     c \in Configs, in \in UNION {SnapshotInputs(d) : d \in Configs},
                     as \in SnapshotAlertStates}
    /\ Val(call).args.config = cfg
    /\ Val(call).args.in \in SnapshotInputs(cfg)
NextSnapshot == CollectMinute
SpecSnapshot == InitSnapshot /\ [][NextSnapshot]_vars

\* the tick returned a snapshot to emit
SnapshotEmitted == Returned("collectMinuteMetrics") /\ Val(Val(call).out).out # Nil

\* C39: the total daily cost of every snapshot a tick emits is the secondary
\* provider's fetched daily cost when a secondary token is configured and cost
\* tracking is enabled, 0 when that fetch failed (the GPU-price estimate is not
\* used then, so that the credit problem is raised exactly on a balance <= 0),
\* and the GPU-price estimate summed over the workers in every other configuration
C39_TotalDailyCostSelection ==
    SnapshotEmitted =>
        LET a        == Val(call).args
            r        == Val(Val(call).out)
            mm       == Val(r.out)
            estimate == SumOver(a.in.primary.val.Workers, "DailyCost", 1)
            tracked  == a.config.vastaiToken # "" /\ a.config.includeVastaiCost
        IN  /\ (tracked /\ a.in.cost.ok) => mm.User.TotalDailyCost = a.in.cost.val
            /\ (tracked /\ ~a.in.cost.ok) =>
                  /\ mm.User.TotalDailyCost = 0
                  /\ (a.config.Enabled /\ a.in.credit.ok /\ ~a.as.CreditAlerted) =>
                        (Handed(r.sent, "credit", "problem") # {} <=> a.in.credit.val <= 0)
            /\ ~tracked => mm.User.TotalDailyCost = estimate

\* a snapshot emitted after the cost fetch failed, with workers that have a price:
\* its total is 0 and the exhausted balance raises the credit problem
C39_Witness ==
    /\ SnapshotEmitted
    /\ Val(call).args.config.vastaiToken # ""
    /\ Val(call).args.config.includeVastaiCost
    /\ Val(call).args.config.Enabled
    /\ ~Val(call).args.in.cost.ok
    /\ Val(call).args.in.credit = Ok(0)
    /\ Val(Val(Val(call).out).out).User.KuzcoDailyCost > 0
    /\ Val(Val(Val(call).out).out).User.TotalDailyCost = 0
    /\ Handed(Val(Val(call).out).sent, "credit", "problem") # {}

-----------------------------------------------------------------------------
(* The way of a snapshot from "ch <- mm" to currentMetrics, the goroutines *)
(* being scheduled fairly                                                  *)

\* updateCurrentMetrics of the consumer goroutine, step by step
Consumer ==
    \/ ConsumerReceive
    \/ ConsumerLock("updateCurrentMetrics", "metricsLock")
    \/ \E isDev \in BOOLEAN : ConsumerStore(isDev)
    \/ ConsumerLock("UpdateMetrics", "globalMetricsLock")
    \/ ConsumerUpdateMetrics

\* a reader of the snapshot, which takes metricsLock in getCurrentMetrics
SnapshotReader ==
    \/ ReporterLock("metricsLock", "getCurrentMetrics.locked")
    \/ ReporterGet
    \/ ReporterRead("General", "read User")
    \/ ReporterRead("User", "SendMessage")
    \/ ReporterSend

InitEmit == InitWith({SchedConfig}, {NoMidnight}) /\ call = Nil
NextEmit ==
    \/ Collector
    \/ Consumer
    \/ SnapshotReader

\* a goroutine that can take a step takes one: the collector's send once the
\* channel has room, the consumer's receive and the sections it runs under its
\* locks, and the reader's section under metricsLock; a goroutine waiting in
\* sync.Mutex.Lock gets the mutex though others keep taking it (the mutex hands
\* itself to a waiter that has waited long)
FairEmit ==
    /\ WF_vars(CollectorSend)
    /\ WF_vars(ConsumerReceive)
    /\ SF_vars(ConsumerLock("updateCurrentMetrics", "metricsLock"))
    /\ WF_vars(\E isDev \in BOOLEAN : ConsumerStore(isDev))
    /\ SF_vars(ConsumerLock("UpdateMetrics", "globalMetricsLock"))
    /\ WF_vars(ConsumerUpdateMetrics)
    /\ WF_vars(ReporterGet)
SpecEmit == InitEmit /\ [][NextEmit]_vars /\ FairEmit

\* the number of the tick whose snapshot readers get, 0 before the first
Visible == IF currentMetrics = Nil THEN 0 ELSE heap[Val(currentMetrics)].General.RPM
\* the collector stands at "ch <- mm" with the snapshot of tick n
Emitting(n) == at["collector"] = "send" /\ ticks = n

\* C40: the snapshots of one collector reach currentMetrics without loss and in
\* the order of their ticks: the snapshot a tick emits is eventually the one
\* readers get, the collector does not stay in its send for ever, and the tick
\* whose snapshot is visible never gives way to an earlier tick
C40_SnapshotsReachReadersInOrder ==
    /\ \A n \in 1..MaxTicks : Emitting(n) ~> (Visible = n)
    /\ (at["collector"] = "send") ~> (at["collector"] = "select")
    /\ [][Visible' >= Visible]_vars

\* the collector waits in its send with the third snapshot, the channel holding
\* the second and the first being visible
C40_Witness ==
    /\ Emitting(3)
    /\ Len(minuteChan) = ChanCap
    /\ minuteChan[1].General.RPM = 2
    /\ Visible = 1

====
